---- MODULE Spec2Model ----
(***************************************************************************)
(* A model of the patient-timeline pipeline of cehrbert:                   *)
(*   - MedToCehrBertDatasetMapping.transform (timeline-to-token mapper),   *)
(*   - convert_one_patient (day blocks and the visit merge scan),          *)
(*   - random_slice_gpt_sequence (boundary-respecting re-anchor),          *)
(*   - SortPatientSequenceMapping.transform (chronological normalizer),    *)
(*   - HFTokenizationMapping.transform (labels of the pretraining record), *)
(*   - create_indexes_by_time_window (time-window indexer),                *)
(*   - tail truncation of a sequence to max_length - 1 tokens,             *)
(*   - DatasetMapping.batch_transform, _meds_to_cehrbert_generator and     *)
(*     create_batch_generator (the drivers that run the transforms),       *)
(*   - GptDataGenerator._create_iterator (the caller of the re-anchor).    *)
(* Datetimes are whole hours since 1970-01-01 00:00.  A Python None is the *)
(* empty tuple and an optional value x is the one-element tuple <<x>>.     *)
(* Numeric concept values are counted in tenths (0.5 is 5, -1 is -10).     *)
(***************************************************************************)
EXTENDS Integers, Sequences, FiniteSets, TLC

VARIABLES
    pc,                       \* the position of the operation under way
    \* MedToCehrBertDatasetMapping.transform
    data_args,                \* the DataTrainingArguments the mapper was built with
    birth_datetime,           \* record['birth_datetime']
    visits,                   \* sorted(record['visits']) consumed by the loop so far
    cehrbert_record,          \* the parallel arrays under construction
    visit_segment_indicator,  \* the bool toggled per emitted visit
    date_cursor,              \* None or the datetime of the time cursor
    frame,                    \* the locals of the current visit iteration
    \* convert_one_patient
    prediction_time,          \* None or the cutoff datetime
    patient_events,           \* patient.events read by the first loop so far
    demographics,             \* birth_datetime, race, gender, ethnicity
    current_date,             \* None or the datetime that opened the current block
    events_for_current_date,  \* the events of the block under construction
    visit_id,                 \* the visit id of the block under construction
    patient_blocks,           \* the PatientBlock list
    active_ed_index,          \* None or a block index (from 1)
    active_admission_index,   \* None or a block index (from 1)
    admit_discharge_pairs,    \* the (admit_index, discharge_index) list
    loop_index,               \* blocks scanned, then pairs reassigned, so far
    cehrbert_patient,         \* None or the CehrBertPatient returned
    \* random_slice_gpt_sequence
    concept_ids,              \* the token sequence, each token a string of characters
    max_seq_len,
    slice_result,             \* None or (start_index, end_index, demographic_tokens)
    \* SortPatientSequenceMapping.transform
    record,                   \* the input record
    sorted_record,            \* None or the record returned
    resorted_record,          \* None or the record returned for the returned record
    \* HFTokenizationMapping.transform
    is_pretraining,           \* self._is_pretraining
    hf_record,                \* the record handed to transform
    hf_output,                \* None, or what the call returned or raised
    \* create_indexes_by_time_window
    window_call,              \* dates, cursor, max_seq_len, time_window_size
    window_indexes,           \* None, or what the call returned or raised
    \* tail truncation
    seq_len,
    max_length,
    tail_window,              \* None or (start_index, end_index)
    \* batch_transform, _meds_to_cehrbert_generator, create_batch_generator
    driver,                   \* which of the three drivers runs
    records,                  \* the records (patients, rows) the driver is given
    position,                 \* records consumed so far
    step,                     \* create_batch_generator: batches of this epoch so far
    epoch,                    \* create_batch_generator: iterators created so far
    emitted,                  \* indices of the records whose result was handed on
    propagated,               \* None or the error that left the driver
    \* GptDataGenerator._create_iterator, one row of the training data
    gpt_mode,                 \* which of _is_random_cursor, _including_long_sequence
    gpt_row                   \* None or the RowSlicer yielded for the row

mapper_vars == <<data_args, birth_datetime, visits, cehrbert_record,
                 visit_segment_indicator, date_cursor, frame>>

merge_vars == <<prediction_time, patient_events, demographics, current_date,
                events_for_current_date, visit_id, patient_blocks, active_ed_index,
                active_admission_index, admit_discharge_pairs, loop_index,
                cehrbert_patient>>

slice_vars == <<concept_ids, max_seq_len, slice_result>>

sort_vars == <<record, sorted_record, resorted_record>>

token_vars == <<is_pretraining, hf_record, hf_output>>

window_vars == <<window_call, window_indexes>>

tail_vars == <<seq_len, max_length, tail_window>>

batch_vars == <<driver, records, position, step, epoch, emitted, propagated>>

gpt_vars == <<gpt_mode, gpt_row>>

driver_vars == <<token_vars, window_vars, tail_vars, batch_vars, gpt_vars>>

vars == <<pc, mapper_vars, merge_vars, slice_vars, sort_vars, driver_vars>>

None == <<>>
Some(x) == <<x>>
IsNone(o) == o = <<>>
Val(o) == o[1]

\* F(x) with x evaluated once, like a Python local holding the value of x
At(F(_), x) == CHOOSE r \in {F(v) : v \in {x}} : TRUE

Min(a, b) == IF a <= b THEN a ELSE b
Max(a, b) == IF a >= b THEN a ELSE b
SetMin(S) == CHOOSE x \in S : \A y \in S : x <= y
SetMax(S) == CHOOSE x \in S : \A y \in S : y <= x
Range(s) == {s[k] : k \in 1..Len(s)}

(***************************************************************************)
(* datetime, timedelta and dateutil.relativedelta                          *)
(***************************************************************************)
HoursPerDay == 24
DaysPerWeek == 7

\* timedelta.days of a difference of two datetimes (floor division)
TimedeltaDays(hours) == hours \div HoursPerDay

\* the proleptic Gregorian date <<year, month, day>> of a day number
CivilFromDays(days) ==
    LET z   == days + 719468
        era == z \div 146097
        doe == z - era * 146097
        yoe == (doe - doe \div 1460 + doe \div 36524 - doe \div 146096) \div 365
        doy == doe - (365 * yoe + yoe \div 4 - yoe \div 100)
        mp  == (5 * doy + 2) \div 153
        d   == doy - (153 * mp + 2) \div 5 + 1
        m   == IF mp < 10 THEN mp + 3 ELSE mp - 9
        y   == yoe + era * 400 + (IF m <= 2 THEN 1 ELSE 0)
    IN  <<y, m, d>>

\* the day number of the date year-month-day
DaysFromCivil(year, month, day) ==
    LET y   == IF month <= 2 THEN year - 1 ELSE year
        era == y \div 400
        yoe == y - era * 400
        mp  == IF month > 2 THEN month - 3 ELSE month + 9
        doy == (153 * mp + 2) \div 5 + day - 1
        doe == yoe * 365 + yoe \div 4 - yoe \div 100 + doy
    IN  era * 146097 + doe - 719468

YearOf(t) == CivilFromDays(t \div HoursPerDay)[1]
MonthOf(t) == CivilFromDays(t \div HoursPerDay)[2]
DayOf(t) == CivilFromDays(t \div HoursPerDay)[3]
Datetime(year, month, day, hour) == DaysFromCivil(year, month, day) * HoursPerDay + hour

IsLeap(y) == (y % 4 = 0 /\ y % 100 # 0) \/ y % 400 = 0
DaysInMonth(y, m) ==
    IF m = 2 THEN (IF IsLeap(y) THEN 29 ELSE 28)
    ELSE IF m \in {4, 6, 9, 11} THEN 30 ELSE 31

\* the months of a date counted from year 0: year * 12 + (month - 1)
MonthIndex(t) == At(LAMBDA c : c[1] * 12 + (c[2] - 1), CivilFromDays(t \div HoursPerDay))

\* dt + relativedelta(months=n): the day of the month is clipped to the month's length
AddMonths(t, n) ==
    At(LAMBDA idx :
           Datetime(idx \div 12, (idx % 12) + 1,
                    Min(DayOf(t), DaysInMonth(idx \div 12, (idx % 12) + 1)),
                    t % HoursPerDay),
       MonthIndex(t) + n)

\* division and remainder that round toward zero, as relativedelta._fix keeps the sign
TruncDiv(a, b) == IF a >= 0 THEN a \div b ELSE -((-a) \div b)
TruncRem(a, b) == a - b * TruncDiv(a, b)

\* the whole months of relativedelta(dt1, dt2): the month difference, moved toward
\* zero while dt2 plus the months overshoots dt1
RECURSIVE SettleMonths(_, _, _)
SettleMonths(dt1, dt2, months) ==
    At(LAMBDA dtm :
           IF dt1 < dt2
           THEN IF dt1 > dtm THEN SettleMonths(dt1, dt2, months + 1) ELSE months
           ELSE IF dt1 < dtm THEN SettleMonths(dt1, dt2, months - 1) ELSE months,
       AddMonths(dt2, months))

\* relativedelta(dt1, dt2), normalised: years, months, days and hours share one sign
RelativeDelta(dt1, dt2) ==
    At(LAMBDA months :
           At(LAMBDA delta :
                  [years  |-> TruncDiv(months, 12),
                   months |-> TruncRem(months, 12),
                   days   |-> TruncDiv(delta, HoursPerDay),
                   hours  |-> TruncRem(delta, HoursPerDay)],
              dt1 - AddMonths(dt2, months)),
       At(LAMBDA m0 : SettleMonths(dt1, dt2, m0), MonthIndex(dt1) - MonthIndex(dt2)))

(***************************************************************************)
(* Sorting: Python's sorted() is stable                                    *)
(***************************************************************************)
\* the rank of a code in Python's str order (code points, left to right) among the
\* codes the model draws from: "-" < digits < upper case < "[" < lower case
CodeRank(code) ==
    CASE code = "0" -> 1
      [] code = "320128" -> 2
      [] code = "4134120" -> 3
      [] code = "8507" -> 4
      [] code = "8536" -> 5
      [] code = "9201" -> 6
      [] code = "9202" -> 7
      [] code = "LT" -> 8
      [] code = "M1" -> 9
      [] code = "W-1" -> 10
      [] code = "W0" -> 11
      [] code = "W1" -> 12
      [] code = "W2" -> 13
      [] code = "W3" -> 14
      [] code = "[VE]" -> 15
      [] code = "[VS]" -> 16
      [] code = "age:44" -> 17
      [] code = "i-D-1" -> 18
      [] code = "i-D-23" -> 19
      [] code = "i-D-30" -> 20
      [] code = "i-D0" -> 21
      [] code = "i-D1" -> 22
      [] code = "i-D13" -> 23
      [] code = "i-D14" -> 24
      [] code = "i-D29" -> 25
      [] code = "i-D30" -> 26
      [] code = "i-D6" -> 27
      [] code = "i-D7" -> 28
      [] code = "year:2024" -> 29

\* the comparison of two sort keys <<k1, k2>>: Python's tuple order
KeyLess(a, b) == a[1] < b[1] \/ (a[1] = b[1] /\ a[2] < b[2])

\* the position that sorted() gives the k-th element of a sequence with these keys:
\* after every element with a smaller key and after the earlier elements with an
\* equal key (sorted() is stable)
SortedPosition(keys, k) ==
    1 + Cardinality({j \in 1..Len(keys) :
                        \/ KeyLess(keys[j], keys[k])
                        \/ (j < k /\ keys[j] = keys[k])})

\* the permutation of sorted(): entry p is the input index of the p-th output
\* (the keys and the positions are each taken as a sequence first, so that they
\* are computed once)
SortedOrder(keys) ==
    LET ks == SubSeq(keys, 1, Len(keys))
        pos == SubSeq([k \in 1..Len(ks) |-> SortedPosition(ks, k)], 1, Len(ks))
    IN  [p \in 1..Len(ks) |-> CHOOSE k \in 1..Len(ks) : pos[k] = p]

(***************************************************************************)
(* Artificial time tokens (spark_apps.decorators.patient_event_decorator)  *)
(***************************************************************************)
\* time_token_func, the CEHR-BERT buckets: weeks, months, long term
time_token_func(time_delta) ==
    IF time_delta < 0 THEN "W-1"
    ELSE IF time_delta < 28 THEN "W" \o ToString(time_delta \div 7)
    ELSE IF time_delta < 360 THEN "M" \o ToString(time_delta \div 30)
    ELSE "LT"

\* time_day_token: the day count, long term from 1080 days on
time_day_token(time_delta) ==
    IF time_delta < 1080 THEN "D" \o ToString(time_delta) ELSE "LT"

\* get_att_function(att_type) applied to an optional day count: the token, or
\* "raise" when att_type selects no function (None is called) or the function is
\* handed None (it compares None with a number)
AttToken(att_type, time_delta) ==
    IF att_type = "none" \/ IsNone(time_delta) THEN "raise"
    ELSE IF att_type = "cehr_bert" THEN time_token_func(Val(time_delta))
    ELSE time_day_token(Val(time_delta))

(***************************************************************************)
(* MedToCehrBertDatasetMapping                                             *)
(***************************************************************************)
INPATIENT_VISIT_TYPES == {"9201", "262", "8971", "8920", "38004311"}
INPATIENT_VISIT_TYPE_CODES ==
    {"Visit/IP", "Visit/ERIP", "Visit/51", "Visit/61", "NUCC/315D00000X"}

\* the sentinel concept value of a token without a number: -1, in tenths
NoValue == -10

ArrayFields == {"concept_ids", "visit_segments", "orders", "dates", "ages",
                "visit_concept_orders", "concept_value_masks", "concept_values",
                "mlm_skip_values", "visit_concept_ids"}

\* the cehrbert_record dictionary created at the top of transform
EmptyRecord ==
    [concept_ids |-> <<>>, visit_segments |-> <<>>, orders |-> <<>>, dates |-> <<>>,
     ages |-> <<>>, visit_concept_orders |-> <<>>, concept_value_masks |-> <<>>,
     concept_values |-> <<>>, mlm_skip_values |-> <<>>, visit_concept_ids |-> <<>>,
     num_of_concepts |-> None, num_of_visits |-> None]

\* the keyword defaults of _update_cehrbert_record
Token(code) ==
    [code |-> code, visit_segment |-> 0, date |-> 0, age |-> -1,
     visit_concept_order |-> 0, visit_concept_id |-> "0",
     concept_value_mask |-> 0, concept_value |-> NoValue, mlm_skip_value |-> 0]

\* _update_cehrbert_record without the append to mlm_skip_values
UpdateCehrbertRecordNoSkip(rec, tok) ==
    [rec EXCEPT !.concept_ids = Append(@, tok.code),
                !.visit_concept_orders = Append(@, tok.visit_concept_order),
                !.ages = Append(@, tok.age),
                !.dates = Append(@, tok.date),
                !.visit_segments = Append(@, tok.visit_segment),
                !.visit_concept_ids = Append(@, tok.visit_concept_id),
                !.concept_value_masks = Append(@, tok.concept_value_mask),
                !.concept_values = Append(@, tok.concept_value)]

\* _update_cehrbert_record: one append to each of the nine arrays
UpdateCehrbertRecord(rec, tok) ==
    [rec EXCEPT !.concept_ids = Append(@, tok.code),
                !.visit_concept_orders = Append(@, tok.visit_concept_order),
                !.ages = Append(@, tok.age),
                !.dates = Append(@, tok.date),
                !.visit_segments = Append(@, tok.visit_segment),
                !.visit_concept_ids = Append(@, tok.visit_concept_id),
                !.concept_value_masks = Append(@, tok.concept_value_mask),
                !.concept_values = Append(@, tok.concept_value),
                !.mlm_skip_values = Append(@, tok.mlm_skip_value)]

\* get_measurements_from_visit: the measurements of the visit's events, each with
\* the time of its event as datetime_value
RECURSIVE GetMeasurementsFromVisit(_)
GetMeasurementsFromVisit(events) ==
    IF events = <<>> THEN <<>>
    ELSE LET e == Head(events)
         IN  [k \in 1..Len(e.measurements) |->
                 [code |-> e.measurements[k].code,
                  datetime_value |-> e.time,
                  numeric_value |-> e.measurements[k].numeric_value]]
             \o GetMeasurementsFromVisit(Tail(events))

\* sorted(measurements, key=lambda m: (m['datetime_value'], m['code']))
SortedMeasurements(measurements) ==
    LET order == SortedOrder([k \in 1..Len(measurements) |->
                                <<measurements[k].datetime_value,
                                  CodeRank(measurements[k].code)>>])
    IN  [p \in 1..Len(measurements) |-> measurements[order[p]]]

IsInpatient(visit_type) ==
    visit_type \in INPATIENT_VISIT_TYPES \/ visit_type \in INPATIENT_VISIT_TYPE_CODES

\* relativedelta(t, birth_datetime).years
AgeAt(t, birth) == RelativeDelta(t, birth).years
\* the date in days instead of weeks
WeekOfDays(t) == TimedeltaDays(t)
\* (t - datetime(1970, 1, 1)).days // 7
WeekOf(t) == TimedeltaDays(t) \div DaysPerWeek

\* lines 203-211: the four demographic prompt tokens, read off record['visits'][0]
DemographicPrompt(rec, first_visit, birth, gender, race) ==
    LET year_str == "year:" \o ToString(YearOf(first_visit.visit_start_datetime))
        age_str  == "age:" \o ToString(AgeAt(first_visit.visit_start_datetime, birth))
    IN  UpdateCehrbertRecord(
            UpdateCehrbertRecord(
                UpdateCehrbertRecord(
                    UpdateCehrbertRecord(rec, Token(year_str)),
                    Token(age_str)),
                Token(gender)),
            Token(race))

\* line 229: (visit_start_datetime - date_cursor).days if date_cursor else None
VisitTimeDelta(cursor, visit_start_datetime) ==
    IF IsNone(cursor) THEN None
    ELSE Some(TimedeltaDays(visit_start_datetime - Val(cursor)))

\* line 237, "if time_delta:": neither None nor 0
Truthy(time_delta) == ~IsNone(time_delta) /\ Val(time_delta) # 0

\* the gap token numbered with the visit before it
GapTokenPreceding(code, order) ==
    [Token(code) EXCEPT !.visit_concept_order = order - 1]

\* lines 239-243: the artificial time token between two visits
GapToken(code, order) ==
    [Token(code) EXCEPT !.visit_concept_order = order]

\* the segment with the two values the other way round
VisitSegmentFlipped(indicator) == IF indicator THEN 1 ELSE 2

\* the segment without the toggle
VisitSegmentStuck(indicator) == 1

\* line 249: int(visit_segment_indicator) + 1
VisitSegment(indicator) == IF indicator THEN 2 ELSE 1

\* lines 251-270 and 331-350: [VS], the visit type, the discharge facility, [VE]
VisitToken(code, f, age, date) ==
    [Token(code) EXCEPT
        !.visit_concept_order = f.order,
        !.age = age,
        !.date = date,
        !.visit_segment = f.visit_segment,
        !.visit_concept_id = f.visit_type]

\* lines 251-259: the visit-start marker
VisitStartToken(f, age, date) == VisitToken("[VS]", f, age, date)

\* the visit end written with the start marker
VisitEndTokenAsStart(f, age, date) == VisitToken("[VS]", f, age, date)

\* lines 342-350: the visit-end marker
VisitEndToken(f, age, date) == VisitToken("[VE]", f, age, date)

\* lines 295-301: the artificial time token inside an inpatient visit
InpatientAttToken(code, f) ==
    [Token("i-" \o code) EXCEPT
        !.visit_concept_order = f.order,
        !.visit_segment = f.visit_segment,
        !.visit_concept_id = f.visit_type]

\* line 288: relativedelta(m['datetime_value'], date_cursor).days
MeasTimeDiff(m, cursor) == RelativeDelta(m.datetime_value, cursor).days

\* the measurement token with the value but without its mask
MeasurementTokenNoMask(m, f, age, date) ==
    LET has_value == ~IsNone(m.numeric_value)
    IN  [Token(m.code) EXCEPT
            !.age = age,
            !.date = date,
            !.visit_concept_order = f.order,
            !.visit_segment = f.visit_segment,
            !.visit_concept_id = f.visit_type,
            !.concept_value = IF has_value THEN Val(m.numeric_value) ELSE NoValue,
            !.mlm_skip_value = IF has_value THEN 1 ELSE 0]

\* lines 304-318: the token of the measurement m
MeasurementToken(m, f, age, date) ==
    LET has_value == ~IsNone(m.numeric_value)
    IN  [Token(m.code) EXCEPT
            !.age = age,
            !.date = date,
            !.visit_concept_order = f.order,
            !.visit_segment = f.visit_segment,
            !.visit_concept_id = f.visit_type,
            !.concept_value_mask = IF has_value THEN 1 ELSE 0,
            !.concept_value = IF has_value THEN Val(m.numeric_value) ELSE NoValue,
            !.mlm_skip_value = IF has_value THEN 1 ELSE 0]

\* the record without its orders
OrdersMissing(rec) == <<>>

\* line 356: list(range(1, len(concept_ids) + 1))
Orders(rec) == [k \in 1..Len(rec.concept_ids) |-> k]

\* lines 355-360: the orders and the count summaries
FinishRecord(rec, all_visits) ==
    [rec EXCEPT !.orders = Orders(rec),
                !.num_of_concepts = Some(Len(rec.concept_ids)),
                !.num_of_visits = Some(Len(all_visits))]

(***************************************************************************)
(* The patients and configurations the mapper is run on                    *)
(***************************************************************************)
MaxVisits == 2      \* visits of one patient
MaxEvents == 3      \* events of one patient, over all its visits

BaseTime == Datetime(2024, 4, 14, 0)
BirthDomain == {Datetime(1980, 4, 14, 0)}
PatientGender == "8507"
PatientRace == "0"

\* the configurations: with or without the prompt and the auxiliary tokens, and
\* CEHR-BERT time tokens alone, with day tokens inside visits, or no time tokens
DataArgsDomain ==
    { [include_demographic_prompt |-> prompt,
       include_auxiliary_token |-> aux,
       att_function_type |-> att[1],
       inpatient_att_function_type |-> att[2]] :
      prompt \in BOOLEAN, aux \in BOOLEAN,
      att \in {<<"cehr_bert", "none">>, <<"cehr_bert", "day">>, <<"none", "none">>} }

\* the events a visit draws from, as hours after the visit start, in time order
EventMenu ==
    << [offset |-> 0,  code |-> "320128",  numeric_value |-> None],
       [offset |-> 1,  code |-> "320128",  numeric_value |-> None],
       [offset |-> 24, code |-> "4134120", numeric_value |-> Some(5)],
       [offset |-> 24, code |-> "320128",  numeric_value |-> Some(NoValue)],
       [offset |-> 30 * HoursPerDay, code |-> "320128", numeric_value |-> None] >>

\* the kinds of visit: outpatient, inpatient without and with an end datetime, each
\* with the entries of EventMenu its events are drawn from
VisitKinds ==
    { [visit_type |-> "9202", ends |-> FALSE, discharge_facility |-> "0",
       menu |-> {2, 4}],
      [visit_type |-> "9201", ends |-> FALSE, discharge_facility |-> "8536",
       menu |-> {1, 3, 4, 5}],
      [visit_type |-> "9201", ends |-> TRUE, discharge_facility |-> "8536",
       menu |-> {1, 3, 4}] }

\* the strictly increasing index tuples into EventMenu over menu, of length at most n
EventPicks(menu, n) ==
    {f \in UNION {[1..k -> menu] : k \in 0..Min(n, Cardinality(menu))} :
        \A a, b \in 1..Len(f) : a < b => f[a] < f[b]}

EventsAt(start, picks) ==
    [k \in 1..Len(picks) |->
        [time |-> start + EventMenu[picks[k]].offset,
         measurements |-> << [code |-> EventMenu[picks[k]].code,
                              numeric_value |-> EventMenu[picks[k]].numeric_value] >>]]

\* hours from one visit start to the next, in chronological order
StartGaps == {0, 7 * HoursPerDay}

RECURSIVE NumEvents(_)
NumEvents(vs) == IF vs = <<>> THEN 0 ELSE Len(Head(vs).events) + NumEvents(Tail(vs))

\* the visits that may follow the visits vs in chronological order
NextVisits(vs) ==
    LET starts == IF vs = <<>> THEN {BaseTime}
                  ELSE {vs[Len(vs)].visit_start_datetime + g : g \in StartGaps}
    IN  UNION { { [visit_type |-> kind.visit_type,
                   visit_start_datetime |-> start,
                   visit_end_datetime |->
                       IF kind.ends THEN Some(start + HoursPerDay) ELSE None,
                   discharge_facility |-> kind.discharge_facility,
                   events |-> EventsAt(start, picks)] :
                  start \in starts,
                  picks \in EventPicks(kind.menu, MaxEvents - NumEvents(vs)) } :
                kind \in VisitKinds }

(***************************************************************************)
(* MedToCehrBertDatasetMapping.transform as a state machine                *)
(***************************************************************************)
\* the locals of the visit loop outside a visit iteration
NoFrame ==
    [order |-> 0, time_delta |-> None, age |-> -1, date |-> 0, visit_segment |-> 0,
     visit_type |-> "0", is_inpatient |-> FALSE, measurements |-> <<>>]

MapperInit ==
    /\ data_args \in DataArgsDomain
    /\ birth_datetime \in BirthDomain
    /\ visits = <<>>
    /\ cehrbert_record = EmptyRecord
    /\ visit_segment_indicator = FALSE
    /\ date_cursor = None
    /\ frame = NoFrame
    /\ pc = "visit"

\* line 196: the assertion on a patient without visits
TransformNoVisit ==
    /\ pc = "visit"
    /\ visits = <<>>
    /\ pc' = "raised"
    /\ UNCHANGED <<data_args, birth_datetime, visits, cehrbert_record,
                   visit_segment_indicator, date_cursor, frame>>
    /\ UNCHANGED <<merge_vars, slice_vars, sort_vars, driver_vars>>

\* lines 203-211 before the first visit, then lines 220-270 for the next visit of
\* sorted(record['visits']): skip it, or emit the gap token, [VS] and the visit type
VisitBegin ==
    /\ pc = "visit"
    /\ Len(visits) < MaxVisits
    /\ \E visit \in NextVisits(visits) :
       \E f \in {[order |-> Len(visits) + 1,
                  time_delta |-> VisitTimeDelta(date_cursor, visit.visit_start_datetime),
                  age |-> AgeAt(visit.visit_start_datetime, birth_datetime),
                  date |-> WeekOf(visit.visit_start_datetime),
                  visit_segment |-> VisitSegment(visit_segment_indicator),
                  visit_type |-> visit.visit_type,
                  is_inpatient |-> IsInpatient(visit.visit_type),
                  measurements |->
                      SortedMeasurements(GetMeasurementsFromVisit(visit.events))]} :
          LET i == Len(visits)
              rec0 == IF i = 0 /\ data_args.include_demographic_prompt
                      THEN DemographicPrompt(cehrbert_record, visit, birth_datetime,
                                             PatientGender, PatientRace)
                      ELSE cehrbert_record
              att == IF Truthy(f.time_delta)
                     THEN AttToken(data_args.att_function_type, f.time_delta)
                     ELSE "skip"
              rec1 == IF att = "skip" THEN rec0
                      ELSE UpdateCehrbertRecord(rec0, GapToken(att, i + 1))
              rec2 == UpdateCehrbertRecord(rec1, VisitStartToken(f, f.age, f.date))
              rec3 == IF data_args.include_auxiliary_token
                      THEN UpdateCehrbertRecord(rec2,
                               VisitToken(f.visit_type, f, f.age, f.date))
                      ELSE rec2
          IN  /\ visits' = Append(visits, visit)
              /\ IF f.measurements = <<>>
                 THEN /\ cehrbert_record' = rec0
                      /\ UNCHANGED <<date_cursor, frame, pc>>
                 ELSE IF att = "raise"
                 THEN /\ cehrbert_record' = rec0
                      /\ date_cursor' = Some(visit.visit_start_datetime)
                      /\ pc' = "raised"
                      /\ UNCHANGED frame
                 ELSE /\ cehrbert_record' = rec3
                      /\ date_cursor' = Some(visit.visit_start_datetime)
                      /\ frame' = f
                      /\ pc' = "measure"
    /\ UNCHANGED <<data_args, birth_datetime, visit_segment_indicator>>
    /\ UNCHANGED <<merge_vars, slice_vars, sort_vars, driver_vars>>

\* lines 273-318: one iteration of the measurement loop
MeasurementStep ==
    /\ pc = "measure"
    /\ frame.measurements # <<>>
    /\ \E m \in {Head(frame.measurements)} :
       \E age \in {IF frame.is_inpatient THEN AgeAt(m.datetime_value, birth_datetime)
                   ELSE frame.age} :
       \E date \in {IF frame.is_inpatient THEN WeekOf(m.datetime_value)
                    ELSE frame.date} :
       \E moved \in {MeasTimeDiff(m, Val(date_cursor)) > 0} :
       LET att == IF moved /\ data_args.inpatient_att_function_type # "none"
                  THEN AttToken(data_args.inpatient_att_function_type, frame.time_delta)
                  ELSE "skip"
           rec1 == IF att = "skip" THEN cehrbert_record
                   ELSE UpdateCehrbertRecord(cehrbert_record,
                                             InpatientAttToken(att, frame))
       IN  /\ date_cursor' = IF moved THEN Some(m.datetime_value) ELSE date_cursor
           /\ IF att = "raise"
              THEN /\ pc' = "raised"
                   /\ UNCHANGED <<cehrbert_record, frame>>
              ELSE /\ cehrbert_record' =
                        UpdateCehrbertRecord(rec1, MeasurementToken(m, frame, age, date))
                   /\ frame' = [frame EXCEPT !.age = age, !.date = date,
                                             !.measurements = Tail(@)]
                   /\ pc' = "measure"
    /\ UNCHANGED <<data_args, birth_datetime, visits, visit_segment_indicator>>
    /\ UNCHANGED <<merge_vars, slice_vars, sort_vars, driver_vars>>

\* lines 320-353: the end of a visit iteration
VisitEnd ==
    /\ pc = "measure"
    /\ frame.measurements = <<>>
    /\ LET visit == visits[Len(visits)]
           rec1 == IF frame.is_inpatient /\ data_args.include_auxiliary_token
                   THEN UpdateCehrbertRecord(cehrbert_record,
                            VisitToken(visit.discharge_facility, frame,
                                       frame.age, frame.date))
                   ELSE cehrbert_record
       IN  /\ date_cursor' = IF frame.is_inpatient /\ ~IsNone(visit.visit_end_datetime)
                             THEN visit.visit_end_datetime
                             ELSE date_cursor
           /\ cehrbert_record' =
                 UpdateCehrbertRecord(rec1, VisitEndToken(frame, frame.age, frame.date))
    /\ visit_segment_indicator' = ~visit_segment_indicator
    /\ frame' = NoFrame
    /\ pc' = "visit"
    /\ UNCHANGED <<data_args, birth_datetime, visits>>
    /\ UNCHANGED <<merge_vars, slice_vars, sort_vars, driver_vars>>

\* lines 355-367: the loop is over, the record is completed and returned
TransformReturn ==
    /\ pc = "visit"
    /\ Len(visits) >= 1
    /\ cehrbert_record' = FinishRecord(cehrbert_record, visits)
    /\ pc' = "done"
    /\ UNCHANGED <<data_args, birth_datetime, visits, visit_segment_indicator,
                   date_cursor, frame>>
    /\ UNCHANGED <<merge_vars, slice_vars, sort_vars, driver_vars>>

MapperNext ==
    \/ TransformNoVisit
    \/ VisitBegin
    \/ MeasurementStep
    \/ VisitEnd
    \/ TransformReturn


(***************************************************************************)
(* convert_one_patient: day blocks, the merge scan, the visits             *)
(* Block and pair indices count from 1 where the Python ones count from 0. *)
(***************************************************************************)
UNKNOWN_VALUE == "Unknown"
DEFAULT_ED_CONCEPT_ID == "9203"
DEFAULT_OUTPATIENT_CONCEPT_ID == "9202"
DEFAULT_INPATIENT_CONCEPT_ID == "9201"

\* the codes of a birth event
birth_codes == {"MEDS_BIRTH"}

\* the event codes of the modelled patients
ClinicalCodes ==
    {"ED_REGISTRATION", "HOSPITAL_ADMISSION", "HOSPITAL_DISCHARGE//HOME", "LAB//50912"}

\* 'ED_REGISTRATION' in code or 'TRANSFER_TO//ED' in code
IsEdCode(code) == code \in {"ED_REGISTRATION", "TRANSFER_TO//ED"}
\* 'HOSPITAL_ADMISSION' in code
IsAdmissionCode(code) == code \in {"HOSPITAL_ADMISSION"}
\* 'HOSPITAL_DISCHARGE' in code
IsDischargeCode(code) == code \in {"HOSPITAL_DISCHARGE//HOME", "HOSPITAL_DISCHARGE"}
\* code.startswith('RACE'), 'GENDER', 'ETHNICITY'
IsRaceCode(code) == code \in {"RACE//WHITE"}
IsGenderCode(code) == code \in {"GENDER//F"}
IsEthnicityCode(code) == code \in {"ETHNICITY//NONE"}

\* the letters left of the code once 'HOSPITAL_DISCHARGE' is removed
DischargeFacilityOf(code) ==
    IF code = "HOSPITAL_DISCHARGE//HOME" THEN "HOME" ELSE ""

_has_ed_admission(events) == \E k \in 1..Len(events) : IsEdCode(events[k].code)
_has_admission(events) == \E k \in 1..Len(events) : IsAdmissionCode(events[k].code)
_has_discharge(events) == \E k \in 1..Len(events) : IsDischargeCode(events[k].code)

\* PatientBlock.__init__
PatientBlock(events, id) ==
    [visit_id |-> id,
     events |-> events,
     min_time |-> events[1].time,
     max_time |-> events[Len(events)].time,
     has_ed_admission |-> _has_ed_admission(events),
     has_admission |-> _has_admission(events),
     has_discharge |-> _has_discharge(events),
     visit_type |-> IF _has_admission(events) THEN DEFAULT_INPATIENT_CONCEPT_ID
                    ELSE IF _has_ed_admission(events) THEN DEFAULT_ED_CONCEPT_ID
                    ELSE DEFAULT_OUTPATIENT_CONCEPT_ID]

\* PatientBlock.get_discharge_facility: None or the facility of the first discharge
get_discharge_facility(block) ==
    IF ~_has_discharge(block.events) THEN None
    ELSE LET k == CHOOSE k \in 1..Len(block.events) :
                     /\ IsDischargeCode(block.events[k].code)
                     /\ \A j \in 1..(k - 1) : ~IsDischargeCode(block.events[j].code)
         IN  Some(DischargeFacilityOf(block.events[k].code))

\* the events of the block without its last one
get_meds_events_but_last(block) ==
    [k \in 1..(Len(block.events) - 1) |->
        [code |-> block.events[k].code,
         time |-> block.events[k].time,
         visit_id |-> block.visit_id]]

\* PatientBlock.get_meds_events
get_meds_events(block) ==
    [k \in 1..Len(block.events) |->
        [code |-> block.events[k].code,
         time |-> block.events[k].time,
         visit_id |-> block.visit_id]]

\* datetime.date(): the calendar day
DateOf(t) == t \div HoursPerDay

MaxPatientEvents == 5    \* events of one patient, the birth event included
DefaultVisitId == 1
FirstEventTime == Datetime(2024, 4, 14, 22)
\* hours from one event to the next: into the next day within 12 hours, or beyond
EventGaps == {1, 3, 30}
PredictionTimes == {None, Some(FirstEventTime + 48)}

\* the events that may follow the events evs of a patient, in time order
NextPatientEvents(evs) ==
    IF evs = <<>>
    THEN {[code |-> "MEDS_BIRTH", time |-> Some(Datetime(1980, 4, 14, 0))]}
    ELSE LET clinical == SelectSeq(evs, LAMBDA e : e.code \in ClinicalCodes)
             times == IF clinical = <<>> THEN {FirstEventTime}
                      ELSE {Val(clinical[Len(clinical)].time) + g : g \in EventGaps}
         IN  {[code |-> c, time |-> Some(t)] : c \in ClinicalCodes, t \in times}
             \cup (IF Len(evs) = 1
                   THEN {[code |-> "GENDER//F", time |-> None]}
                   ELSE {})

NoDemographics ==
    [birth_datetime |-> None, race |-> None, gender |-> None, ethnicity |-> None]

MergeIdle ==
    /\ prediction_time = None
    /\ patient_events = <<>>
    /\ demographics = NoDemographics
    /\ current_date = None
    /\ events_for_current_date = <<>>
    /\ visit_id = DefaultVisitId
    /\ patient_blocks = <<>>
    /\ active_ed_index = None
    /\ active_admission_index = None
    /\ admit_discharge_pairs = <<>>
    /\ loop_index = 0
    /\ cehrbert_patient = None

\* lines 111-119: the locals before the first loop
MergeInit ==
    /\ pc = "read"
    /\ prediction_time \in PredictionTimes
    /\ patient_events = <<>>
    /\ demographics = NoDemographics
    /\ current_date = None
    /\ events_for_current_date = <<>>
    /\ visit_id = DefaultVisitId
    /\ patient_blocks = <<>>
    /\ active_ed_index = None
    /\ active_admission_index = None
    /\ admit_discharge_pairs = <<>>
    /\ loop_index = 0
    /\ cehrbert_patient = None

\* lines 120-147: one iteration of the loop over patient.events
ReadEvent ==
    /\ pc = "read"
    /\ Len(patient_events) < MaxPatientEvents
    /\ \E e \in NextPatientEvents(patient_events) :
          /\ patient_events' = Append(patient_events, e)
          /\ IF /\ ~IsNone(prediction_time) /\ ~IsNone(e.time)
                /\ Val(e.time) > Val(prediction_time)
             THEN /\ pc' = "close"
                  /\ UNCHANGED <<demographics, current_date, events_for_current_date,
                                 visit_id, patient_blocks>>
             ELSE /\ pc' = "read"
                  /\ IF e.code \in birth_codes
                     THEN /\ demographics' = [demographics EXCEPT !.birth_datetime = e.time]
                          /\ UNCHANGED <<current_date, events_for_current_date,
                                         visit_id, patient_blocks>>
                     ELSE IF IsRaceCode(e.code)
                     THEN /\ demographics' = [demographics EXCEPT !.race = Some(e.code)]
                          /\ UNCHANGED <<current_date, events_for_current_date,
                                         visit_id, patient_blocks>>
                     ELSE IF IsGenderCode(e.code)
                     THEN /\ demographics' = [demographics EXCEPT !.gender = Some(e.code)]
                          /\ UNCHANGED <<current_date, events_for_current_date,
                                         visit_id, patient_blocks>>
                     ELSE IF IsEthnicityCode(e.code)
                     THEN /\ demographics' =
                                [demographics EXCEPT !.ethnicity = Some(e.code)]
                          /\ UNCHANGED <<current_date, events_for_current_date,
                                         visit_id, patient_blocks>>
                     ELSE IF IsNone(e.time)
                     THEN UNCHANGED <<demographics, current_date,
                                      events_for_current_date, visit_id, patient_blocks>>
                     ELSE LET ev == [code |-> e.code, time |-> Val(e.time)]
                              cur == IF IsNone(current_date) THEN ev.time
                                     ELSE Val(current_date)
                          IN  /\ UNCHANGED demographics
                              /\ IF DateOf(cur) = DateOf(ev.time)
                                 THEN /\ current_date' = Some(cur)
                                      /\ events_for_current_date' =
                                            Append(events_for_current_date, ev)
                                      /\ UNCHANGED <<visit_id, patient_blocks>>
                                 ELSE /\ patient_blocks' =
                                            Append(patient_blocks,
                                                   PatientBlock(events_for_current_date,
                                                                visit_id))
                                      /\ events_for_current_date' = <<ev>>
                                      /\ current_date' = Some(ev.time)
                                      /\ visit_id' = visit_id + 1
    /\ UNCHANGED <<prediction_time, active_ed_index, active_admission_index,
                   admit_discharge_pairs, loop_index, cehrbert_patient>>
    /\ UNCHANGED <<mapper_vars, slice_vars, sort_vars, driver_vars>>

\* lines 149-154: patient.events is exhausted (or the loop broke off); the last
\* block is closed and the locals of the scan are set
CloseBlocks ==
    /\ pc \in {"read", "close"}
    /\ patient_events # <<>>
    /\ patient_blocks' =
          IF events_for_current_date # <<>>
          THEN Append(patient_blocks, PatientBlock(events_for_current_date, visit_id))
          ELSE patient_blocks
    /\ admit_discharge_pairs' = <<>>
    /\ active_ed_index' = None
    /\ active_admission_index' = None
    /\ loop_index' = 0
    /\ pc' = "scan"
    /\ UNCHANGED <<prediction_time, patient_events, demographics, current_date,
                   events_for_current_date, visit_id, cehrbert_patient>>
    /\ UNCHANGED <<mapper_vars, slice_vars, sort_vars, driver_vars>>

\* line 163-164: the ED block tracked once block i has been looked at
EdIndexAt(i, ed, adm) ==
    IF patient_blocks[i].has_ed_admission /\ IsNone(adm) THEN Some(i) ELSE ed

\* line 176: time_diff.hours <= 24 or active_ed_index == i
EdWithinDay(ed_index, i) ==
    \/ RelativeDelta(patient_blocks[ed_index].max_time, patient_blocks[i].min_time).hours <= 24
    \/ ed_index = i

\* the admission check that keeps an admission that is already active
AfterAdmissionCheckKeepFirst(i, ed, adm) ==
    LET ed1 == EdIndexAt(i, ed, adm)
    IN  IF ~patient_blocks[i].has_admission THEN <<ed1, adm>>
        ELSE IF ~IsNone(ed1)
        THEN IF EdWithinDay(Val(ed1), i) THEN <<None, ed1>> ELSE <<ed1, adm>>
        ELSE IF ~IsNone(adm) THEN <<ed1, adm>> ELSE <<ed1, Some(i)>>

\* lines 163-180: the active indices <<ed, admission>> after the ED and the
\* admission checks of block i
AfterAdmissionCheck(i, ed, adm) ==
    LET ed1 == EdIndexAt(i, ed, adm)
    IN  IF ~patient_blocks[i].has_admission THEN <<ed1, adm>>
        ELSE IF ~IsNone(ed1)
        THEN IF EdWithinDay(Val(ed1), i) THEN <<None, ed1>> ELSE <<ed1, adm>>
        ELSE <<ed1, Some(i)>>

\* the last-block check without the test of the prediction time
ClosesPartialVisitAlways(i, adm) ==
    /\ i = Len(patient_blocks)
    /\ ~IsNone(adm)

\* lines 190-196: at the last block an admission is still active and a prediction
\* time was given
ClosesPartialVisit(i, adm) ==
    /\ i = Len(patient_blocks)
    /\ ~IsNone(adm) /\ ~IsNone(prediction_time)

\* lines 161-196: one iteration of the scan over patient_blocks
ScanBlock ==
    /\ pc = "scan"
    /\ loop_index < Len(patient_blocks)
    /\ \E i \in {loop_index + 1} :
       \E after \in {AfterAdmissionCheck(i, active_ed_index, active_admission_index)} :
          LET block == patient_blocks[i]
              pairs1 == IF block.has_discharge /\ ~IsNone(after[2])
                        THEN Append(admit_discharge_pairs, <<Val(after[2]), i>>)
                        ELSE admit_discharge_pairs
              ed2 == IF block.has_discharge THEN None ELSE after[1]
              adm2 == IF block.has_discharge THEN None ELSE after[2]
          IN  /\ active_ed_index' = ed2
              /\ active_admission_index' = adm2
              /\ admit_discharge_pairs' =
                    IF ClosesPartialVisit(i, adm2)
                    THEN Append(pairs1, <<Val(adm2), i>>)
                    ELSE pairs1
              /\ loop_index' = i
    /\ UNCHANGED <<pc, prediction_time, patient_events, demographics, current_date,
                   events_for_current_date, visit_id, patient_blocks, cehrbert_patient>>
    /\ UNCHANGED <<mapper_vars, slice_vars, sort_vars, driver_vars>>

\* line 199: the scan is over, the loop over admit_discharge_pairs begins
ScanDone ==
    /\ pc = "scan"
    /\ loop_index = Len(patient_blocks)
    /\ pc' = "reassign"
    /\ loop_index' = 0
    /\ UNCHANGED <<prediction_time, patient_events, demographics, current_date,
                   events_for_current_date, visit_id, patient_blocks, active_ed_index,
                   active_admission_index, admit_discharge_pairs, cehrbert_patient>>
    /\ UNCHANGED <<mapper_vars, slice_vars, sort_vars, driver_vars>>

\* line 210: (discharge_block.max_time - next_block.min_time).total_seconds() / 3600
HourDiff(discharge_block, next_block) == discharge_block.max_time - next_block.min_time

\* lines 200-213: the blocks once the pair (admit_index, discharge_index) is handled
ReassignBlocks(blocks, admit_index, discharge_index) ==
    LET id == blocks[admit_index].visit_id
        absorbed == /\ discharge_index + 1 <= Len(blocks)
                    /\ HourDiff(blocks[discharge_index], blocks[discharge_index + 1]) <= 12
    IN  [k \in 1..Len(blocks) |->
            IF \/ (admit_index <= k /\ k <= discharge_index)
               \/ (absorbed /\ k = discharge_index + 1)
            THEN [blocks[k] EXCEPT !.visit_id = id,
                                   !.visit_type = DEFAULT_INPATIENT_CONCEPT_ID]
            ELSE blocks[k]]

\* lines 199-213: one iteration of the loop over admit_discharge_pairs
ReassignPair ==
    /\ pc = "reassign"
    /\ loop_index < Len(admit_discharge_pairs)
    /\ \E pair \in {admit_discharge_pairs[loop_index + 1]} :
          /\ patient_blocks' = ReassignBlocks(patient_blocks, pair[1], pair[2])
          /\ visit_id' = patient_blocks[pair[1]].visit_id
    /\ loop_index' = loop_index + 1
    /\ UNCHANGED <<pc, prediction_time, patient_events, demographics, current_date,
                   events_for_current_date, active_ed_index, active_admission_index,
                   admit_discharge_pairs, cehrbert_patient>>
    /\ UNCHANGED <<mapper_vars, slice_vars, sort_vars, driver_vars>>

\* the visit ids of the blocks in the order of their first block (the keys of
\* patient_block_dict)
RECURSIVE VisitIdsInOrder(_, _)
VisitIdsInOrder(blocks, seen) ==
    IF blocks = <<>> THEN <<>>
    ELSE IF Head(blocks).visit_id \in seen THEN VisitIdsInOrder(Tail(blocks), seen)
    ELSE <<Head(blocks).visit_id>>
         \o VisitIdsInOrder(Tail(blocks), seen \cup {Head(blocks).visit_id})

RECURSIVE ExtendEvents(_)
ExtendEvents(blocks) ==
    IF blocks = <<>> THEN <<>>
    ELSE get_meds_events(Head(blocks)) \o ExtendEvents(Tail(blocks))

\* the first discharge facility of blocks that is neither None nor ''
RECURSIVE FirstFacility(_)
FirstFacility(blocks) ==
    IF blocks = <<>> THEN None
    ELSE LET f == get_discharge_facility(Head(blocks))
         IN  IF ~IsNone(f) /\ Val(f) # "" THEN f ELSE FirstFacility(Tail(blocks))

\* the Visit with the start taken as the latest and the end as the earliest time
VisitOfSwapped(blocks) ==
    LET visit_type == blocks[1].visit_type
        facility == IF visit_type = DEFAULT_INPATIENT_CONCEPT_ID
                    THEN FirstFacility(blocks) ELSE None
    IN  [visit_type |-> visit_type,
         visit_start_datetime |->
             SetMax({blocks[k].max_time : k \in 1..Len(blocks)}),
         visit_end_datetime |->
             SetMin({blocks[k].min_time : k \in 1..Len(blocks)}),
         discharge_facility |-> IF IsNone(facility) THEN UNKNOWN_VALUE ELSE Val(facility),
         events |-> ExtendEvents(blocks)]

\* lines 221-240: the Visit of the blocks that share one visit id
VisitOf(blocks) ==
    LET visit_type == blocks[1].visit_type
        facility == IF visit_type = DEFAULT_INPATIENT_CONCEPT_ID
                    THEN FirstFacility(blocks) ELSE None
    IN  [visit_type |-> visit_type,
         visit_start_datetime |->
             SetMin({blocks[k].min_time : k \in 1..Len(blocks)}),
         visit_end_datetime |->
             SetMax({blocks[k].max_time : k \in 1..Len(blocks)}),
         discharge_facility |-> IF IsNone(facility) THEN UNKNOWN_VALUE ELSE Val(facility),
         events |-> ExtendEvents(blocks)]

\* lines 215-240: the visits, one per visit id
BuildVisits(blocks) ==
    LET ids == VisitIdsInOrder(blocks, {})
    IN  [n \in 1..Len(ids) |->
            VisitOf(SelectSeq(blocks, LAMBDA b : b.visit_id = ids[n]))]

\* lines 241-245
AgeAtIndex(prediction, birth) ==
    IF IsNone(prediction) \/ IsNone(birth) THEN -1
    ELSE LET p == Val(prediction)
             b == Val(birth)
             years == YearOf(p) - YearOf(b)
         IN  IF \/ MonthOf(p) < MonthOf(b)
                \/ (MonthOf(p) = MonthOf(b) /\ DayOf(p) < DayOf(b))
             THEN years - 1 ELSE years

OrUnknown(o) == IF IsNone(o) THEN UNKNOWN_VALUE ELSE Val(o)

\* lines 215-260: the pairs are handled; the visits are built and the patient returned
ConvertReturn ==
    /\ pc = "reassign"
    /\ loop_index = Len(admit_discharge_pairs)
    /\ IF IsNone(demographics.birth_datetime)
       THEN /\ pc' = "raised"
            /\ UNCHANGED cehrbert_patient
       ELSE /\ pc' = "converted"
            /\ cehrbert_patient' =
                  Some([birth_datetime |-> Val(demographics.birth_datetime),
                        visits |-> BuildVisits(patient_blocks),
                        race |-> OrUnknown(demographics.race),
                        gender |-> OrUnknown(demographics.gender),
                        ethnicity |-> OrUnknown(demographics.ethnicity),
                        index_date |-> prediction_time,
                        age_at_index |->
                            AgeAtIndex(prediction_time, demographics.birth_datetime)])
    /\ UNCHANGED <<prediction_time, patient_events, demographics, current_date,
                   events_for_current_date, visit_id, patient_blocks, active_ed_index,
                   active_admission_index, admit_discharge_pairs, loop_index>>
    /\ UNCHANGED <<mapper_vars, slice_vars, sort_vars, driver_vars>>

MergeNext ==
    \/ ReadEvent
    \/ CloseBlocks
    \/ ScanBlock
    \/ ScanDone
    \/ ReassignPair
    \/ ConvertReturn

(***************************************************************************)
(* random_slice_gpt_sequence.  A token is the sequence of its characters,  *)
(* offsets into concept_ids count from 0 as in the code.                   *)
(***************************************************************************)
Digits == <<"0", "1", "2", "3", "4", "5", "6", "7", "8", "9">>
IsDigit(c) == \E d \in 1..10 : Digits[d] = c
DigitValue(c) == (CHOOSE d \in 1..10 : Digits[d] = c) - 1

\* int(chars): None where int raises ValueError
RECURSIVE ParseDigits(_, _)
ParseDigits(chars, acc) ==
    IF chars = <<>> THEN Some(acc)
    ELSE IF ~IsDigit(Head(chars)) THEN None
    ELSE ParseDigits(Tail(chars), 10 * acc + DigitValue(Head(chars)))

ParseInt(chars) == IF chars = <<>> THEN None ELSE ParseDigits(chars, 0)

\* str(n) for n >= 0
RECURSIVE FormatInt(_)
FormatInt(n) ==
    IF n < 10 THEN <<Digits[n + 1]>>
    ELSE FormatInt(n \div 10) \o <<Digits[(n % 10) + 1]>>

\* token.split(sep)
RECURSIVE Split(_, _, _)
Split(chars, sep, field) ==
    IF chars = <<>> THEN <<field>>
    ELSE IF Head(chars) = sep THEN <<field>> \o Split(Tail(chars), sep, <<>>)
    ELSE Split(Tail(chars), sep, Append(field, Head(chars)))

\* token[:n] and token[1:]
Prefix(chars, n) == SubSeq(chars, 1, Min(n, Len(chars)))
DropFirst(chars) == IF chars = <<>> THEN <<>> ELSE Tail(chars)

VS == <<"V", "S">>
VE == <<"V", "E">>
LT == <<"L", "T">>
YearPrefix == <<"y", "e", "a", "r", ":">>
AgePrefix == <<"a", "g", "e", ":">>

\* date(year, 1, 1) in days since 1970-01-01, None where date raises ValueError
FirstOfYear(year) ==
    IF year < 1 \/ year > 9999 THEN None ELSE Some(DaysFromCivil(year, 1, 1))
YearOfDays(days) == CivilFromDays(days)[1]

\* token.split(sep)[1], None where the index is out of range
SecondField(chars, sep) ==
    LET fields == Split(chars, sep, <<>>)
    IN  IF Len(fields) < 2 THEN None ELSE Some(fields[2])

\* lines 48-57: the days the token moves data_cursor by (0 for a token that is no
\* time token), raised where the token does not parse
TokenDays(token) ==
    IF token = <<>> THEN [raised |-> TRUE, days |-> 0]
    ELSE IF token[1] = "D"
    THEN LET n == ParseInt(Tail(token))
         IN  IF IsNone(n) THEN [raised |-> TRUE, days |-> 0]
             ELSE [raised |-> FALSE, days |-> Val(n)]
    ELSE IF token = LT THEN [raised |-> FALSE, days |-> 365 * 3]
    ELSE IF Prefix(token, 3) = <<"V", "S", "-">> \/ Prefix(token, 2) = <<"i", "-">>
    THEN LET n == ParseInt(DropFirst(Val(SecondField(token, "-"))))
         IN  IF IsNone(n) THEN [raised |-> TRUE, days |-> 0]
             ELSE [raised |-> FALSE, days |-> Val(n)]
    ELSE [raised |-> FALSE, days |-> 0]

\* lines 44-57: the starting_points of the forward scan over the offsets i..stop-1,
\* raised on an IndexError or a ValueError
RECURSIVE ForwardScan(_, _, _, _, _, _)
ForwardScan(ids, i, stop, data_cursor, birth_year, starting_points) ==
    IF i >= stop THEN [raised |-> FALSE, points |-> starting_points]
    ELSE IF i >= Len(ids) THEN [raised |-> TRUE, points |-> <<>>]
    ELSE IF ids[i + 1] = VS
    THEN ForwardScan(ids, i + 1, stop, data_cursor, birth_year,
                     Append(starting_points,
                            <<i, YearOfDays(data_cursor),
                              YearOfDays(data_cursor) - birth_year>>))
    ELSE IF TokenDays(ids[i + 1]).raised THEN [raised |-> TRUE, points |-> <<>>]
    ELSE ForwardScan(ids, i + 1, stop, data_cursor + TokenDays(ids[i + 1]).days,
                     birth_year, starting_points)

\* lines 40-57: the starting points of concept_ids, raised on any exception
StartingPoints(ids, max_len) ==
    LET start_year == At(LAMBDA f : IF IsNone(f) THEN None ELSE ParseInt(Val(f)),
                         SecondField(ids[1], ":"))
        start_age  == At(LAMBDA f : IF IsNone(f) THEN None ELSE ParseInt(Val(f)),
                         SecondField(ids[2], ":"))
    IN  IF IsNone(start_year) \/ IsNone(start_age)
        THEN [raised |-> TRUE, points |-> <<>>]
        ELSE IF \/ IsNone(FirstOfYear(Val(start_year)))
                \/ IsNone(FirstOfYear(Val(start_year) - Val(start_age)))
        THEN [raised |-> TRUE, points |-> <<>>]
        ELSE ForwardScan(ids, 4, Max(5, Len(ids) - max_len),
                         Val(FirstOfYear(Val(start_year))),
                         Val(start_year) - Val(start_age), <<>>)

\* the end of the window regardless of the markers
RandomEndIndexWindow(ids, random_starting_index, max_len) ==
    IF max_len <= 4 THEN Some(random_starting_index)
    ELSE IF random_starting_index + max_len - 5 >= Len(ids) THEN None
    ELSE Some(random_starting_index + max_len - 5)

\* lines 70-75: the offset of the last VE among the max_len - 4 offsets from
\* random_starting_index on, random_starting_index itself when there is none;
\* None on an IndexError
RandomEndIndex(ids, random_starting_index, max_len) ==
    LET window == random_starting_index..(random_starting_index + max_len - 5)
        ends == {i \in window : i < Len(ids) /\ ids[i + 1] = VE}
    IN  IF window # {} /\ random_starting_index + max_len - 5 >= Len(ids) THEN None
        ELSE IF ends = {} THEN Some(random_starting_index)
        ELSE Some(SetMax(ends))

\* lines 63-68
DemographicTokens(point, start_gender, start_race) ==
    <<YearPrefix \o FormatInt(point[2]), AgePrefix \o FormatInt(point[3]),
      start_gender, start_race>>

MaxChunks == 4     \* chunks of tokens after the four demographic tokens

Headers ==
    { <<YearPrefix \o <<"2", "0", "0", "0">>, AgePrefix \o <<"3", "0">>, <<"M">>, <<"W">>>>,
      <<<<"2", "0", "0", "0">>, AgePrefix \o <<"3", "0">>, <<"M">>, <<"W">>>> }

\* a visit, a visit with a concept, a day token, a concept whose code starts with D,
\* a visit cut off before its end, a long-term token
Chunks ==
    << <<VS, VE>>,
       <<VS, <<"C">>, VE>>,
       <<<<"D", "4", "0", "0">>>>,
       <<<<"D", "x">>>>,
       <<VS, <<"C">>>>,
       <<LT>> >>

RECURSIVE Flatten(_)
Flatten(picks) ==
    IF picks = <<>> THEN <<>> ELSE Chunks[Head(picks)] \o Flatten(Tail(picks))

SliceInputs ==
    {h \o Flatten(picks) :
        h \in Headers,
        picks \in UNION {[1..k -> 1..Len(Chunks)] : k \in 0..MaxChunks}}
    \cup {<<YearPrefix \o <<"2", "0", "0", "0">>, AgePrefix \o <<"3", "0">>, <<"M">>>>}

MaxSeqLens == {6, 7}

SliceIdle ==
    /\ concept_ids = <<>>
    /\ max_seq_len = 0
    /\ slice_result = None

SliceInit ==
    /\ pc = "slice"
    /\ concept_ids \in SliceInputs
    /\ max_seq_len \in MaxSeqLens
    /\ slice_result = None

\* lines 36-38: fewer than four tokens, the unpacking raises outside the try
SliceUnpackRaises ==
    /\ pc = "slice"
    /\ Len(concept_ids) < 4
    /\ pc' = "raised"
    /\ UNCHANGED <<slice_vars, mapper_vars, merge_vars, sort_vars, driver_vars>>

\* lines 39-79: the call returns
RandomSliceGptSequence ==
    /\ pc = "slice"
    /\ Len(concept_ids) >= 4
    /\ \E scan \in {StartingPoints(concept_ids, max_seq_len)} :
          IF scan.raised
          THEN slice_result' = Some(<<0, max_seq_len - 1, <<>>>>)
          ELSE IF Len(scan.points) = 0
          THEN slice_result' = Some(<<0, 0, SubSeq(concept_ids, 1, 4)>>)
          ELSE \E point \in Range(scan.points) :
               \E random_end_index \in {RandomEndIndex(concept_ids, point[1], max_seq_len)} :
                  IF IsNone(random_end_index)
                  THEN slice_result' = Some(<<0, max_seq_len - 1, <<>>>>)
                  ELSE slice_result' =
                           Some(<<point[1], Val(random_end_index),
                                  DemographicTokens(point, concept_ids[3], concept_ids[4])>>)
    /\ pc' = "sliced"
    /\ UNCHANGED <<concept_ids, max_seq_len, mapper_vars, merge_vars, sort_vars, driver_vars>>

SliceNext ==
    \/ SliceUnpackRaises
    \/ RandomSliceGptSequence

(***************************************************************************)
(* SortPatientSequenceMapping.transform                                    *)
(***************************************************************************)
\* the keys of the record in their order, and those whose value is a list
RecordFields == <<"person_id", "concept_ids", "orders", "dates", "ages">>
ListFields == {"concept_ids", "orders", "dates", "ages"} \cup ArrayFields

\* record.get(name, None) of a list field, the empty list standing for None
GetList(rec, name) == IF name \in DOMAIN rec THEN rec[name] ELSE <<>>

\* lines 387-389: record['orders'], or record['dates'] when that is missing or empty
SortingColumns(rec) ==
    IF GetList(rec, "orders") # <<>> THEN GetList(rec, "orders") ELSE GetList(rec, "dates")

\* the columns without the ordering key
ColumnNamesWithoutOrders(rec) ==
    {"concept_ids"} \cup
    {k \in DOMAIN rec \ {"orders"} :
        k \in ListFields /\ Len(rec[k]) = Len(rec["concept_ids"])}

\* lines 396-404: concept_ids and the other list fields of its length
ColumnNames(rec) ==
    {"concept_ids"} \cup
    {k \in DOMAIN rec :
        k \in ListFields /\ Len(rec[k]) = Len(rec["concept_ids"])}

\* the sort key without the concept_id
SortingKeyOnly(key, concept_id) == <<key, 0>>

\* line 406: key=lambda tup2: (tup2[0], tup2[1])
SortingKey(key, concept_id) == <<key, CodeRank(concept_id)>>

\* line 406: the input index of each row of sorted(zip(sorting_columns, *column_values))
SortedRows(rec) ==
    LET sorting_columns == SortingColumns(rec)
        rows == Min(Len(sorting_columns), Len(rec["concept_ids"]))
    IN  SortedOrder([k \in 1..rows |->
                        SortingKey(sorting_columns[k], rec["concept_ids"][k])])

\* lines 387-416
SortTransform(rec) ==
    IF SortingColumns(rec) = <<>> THEN rec
    ELSE LET order == SortedRows(rec)
         IN  [k \in ColumnNames(rec) |-> [p \in 1..Len(order) |-> rec[k][order[p]]]]

MaxSeqLength == 3     \* tokens of a record handed to the normalizer
SortCodes == {"320128", "4134120"}

SortRecords(n) ==
    [person_id : {1},
     concept_ids : [1..n -> SortCodes],
     orders : {<<>>} \cup [1..n -> 1..2],
     dates : {<<>>} \cup [1..n -> {2832, 2833}],
     ages : [1..n -> {44, 45}]]

SortIdle ==
    /\ record = <<>>
    /\ sorted_record = None
    /\ resorted_record = None

SortInit ==
    /\ pc = "sort"
    /\ \E n \in 1..MaxSeqLength : record \in SortRecords(n)
    /\ sorted_record = None
    /\ resorted_record = None

\* lines 378-416: the call returns
SortPatientSequence ==
    /\ pc = "sort"
    /\ sorted_record' = Some(SortTransform(record))
    /\ pc' = "sorted"
    /\ UNCHANGED <<record, resorted_record, mapper_vars, merge_vars, slice_vars,
                   driver_vars>>

\* lines 378-416: the call on the record the first call returned
SortPatientSequenceAgain ==
    /\ pc = "sorted"
    /\ resorted_record' = Some(SortTransform(Val(sorted_record)))
    /\ pc' = "resorted"
    /\ UNCHANGED <<record, sorted_record, mapper_vars, merge_vars, slice_vars,
                   driver_vars>>

SortNext ==
    \/ SortPatientSequence
    \/ SortPatientSequenceAgain

\* the defensive pass: SortPatientSequenceMapping.transform on the record that
\* MedToCehrBertDatasetMapping.transform has just returned
SortMappedRecord ==
    /\ pc = "done"
    /\ record' = cehrbert_record
    /\ sorted_record' = Some(SortTransform(cehrbert_record))
    /\ pc' = "normalized"
    /\ UNCHANGED <<resorted_record, mapper_vars, merge_vars, slice_vars, driver_vars>>

(***************************************************************************)
(* HFTokenizationMapping.transform (hf_dataset_mapping.py, lines 418-478)  *)
(***************************************************************************)
\* line 472: the label of a position the masking must never select
IgnoreLabel == 0 - 100

\* lines 463, 470-472: labels = copy.deepcopy(input_ids), then -100 at every
\* position of zip(input_ids, mlm_skip_values) whose mlm_skip_value is 1
Labels(input_ids, mlm_skip_values) ==
    [i \in 1..Len(input_ids) |->
        IF i <= Len(mlm_skip_values) /\ mlm_skip_values[i] = 1
        THEN IgnoreLabel
        ELSE input_ids[i]]

\* the labels written into the list input_ids itself, as without the deep copy
LabelledAliased(input_ids, mlm_skip_values) ==
    [input_ids |-> Labels(input_ids, mlm_skip_values),
     labels |-> Labels(input_ids, mlm_skip_values)]

\* lines 463-478: labels is a deep copy, so record['input_ids'] keeps the ids
Labelled(input_ids, mlm_skip_values) ==
    [input_ids |-> input_ids,
     labels |-> Labels(input_ids, mlm_skip_values)]

MaxTokens == 3      \* tokens of a record handed to the tokenization

\* line 454: the tokenizer is a collaborator outside this code; encode returns a
\* sequence of vocabulary ids, of whatever length
VocabularyIds == {0, 7}
EncodeResults == UNION {[1..n -> VocabularyIds] : n \in 0..MaxTokens}

TokenCodes == {"VS", "320128"}
HfRecords ==
    UNION { [concept_ids : [1..n -> TokenCodes],
             mlm_skip_values : {None} \cup
                 {Some(m) : m \in UNION {[1..k -> {0, 1}] : k \in 0..MaxTokens}}] :
            n \in 0..MaxTokens }

\* line 461: 'mlm_skip_values' in record
HasSkipValues(rec) == ~IsNone(rec.mlm_skip_values)

\* lines 460-469: the assertion on the two lengths is reached and fails
LengthAssertionFails(rec, input_ids) ==
    /\ is_pretraining
    /\ HasSkipValues(rec)
    /\ Len(input_ids) # Len(Val(rec.mlm_skip_values))

TokenIdle ==
    /\ is_pretraining = FALSE
    /\ hf_record = <<>>
    /\ hf_output = None

TokenInit ==
    /\ pc = "tokenize"
    /\ is_pretraining \in BOOLEAN
    /\ hf_record \in HfRecords
    /\ hf_output = None

\* lines 454-469: AssertionError, after record['input_ids'] was assigned
TokenizeRaises ==
    /\ pc = "tokenize"
    /\ \E input_ids \in EncodeResults :
          /\ LengthAssertionFails(hf_record, input_ids)
          /\ hf_output' = Some([raised |-> TRUE,
                                concept_ids |-> hf_record.concept_ids,
                                mlm_skip_values |-> hf_record.mlm_skip_values,
                                encoded |-> input_ids,
                                input_ids |-> input_ids,
                                labels |-> None])
    /\ pc' = "tokenized"
    /\ UNCHANGED <<is_pretraining, hf_record>>
    /\ UNCHANGED <<mapper_vars, merge_vars, slice_vars, sort_vars,
                   window_vars, tail_vars, batch_vars, gpt_vars>>

\* lines 454-478: the record is returned, with labels in pretraining mode when it
\* carries mlm_skip_values
TokenizeReturns ==
    /\ pc = "tokenize"
    /\ \E input_ids \in EncodeResults :
          /\ ~LengthAssertionFails(hf_record, input_ids)
          /\ hf_output' =
                IF is_pretraining /\ HasSkipValues(hf_record)
                THEN LET out == Labelled(input_ids, Val(hf_record.mlm_skip_values))
                     IN  Some([raised |-> FALSE,
                               concept_ids |-> hf_record.concept_ids,
                               mlm_skip_values |-> hf_record.mlm_skip_values,
                               encoded |-> input_ids,
                               input_ids |-> out.input_ids,
                               labels |-> Some(out.labels)])
                ELSE Some([raised |-> FALSE,
                           concept_ids |-> hf_record.concept_ids,
                           mlm_skip_values |-> hf_record.mlm_skip_values,
                           encoded |-> input_ids,
                           input_ids |-> input_ids,
                           labels |-> None])
    /\ pc' = "tokenized"
    /\ UNCHANGED <<is_pretraining, hf_record>>
    /\ UNCHANGED <<mapper_vars, merge_vars, slice_vars, sort_vars,
                   window_vars, tail_vars, batch_vars, gpt_vars>>

TokenNext == TokenizeRaises \/ TokenizeReturns

(***************************************************************************)
(* create_indexes_by_time_window (data_generator_base.py, lines 20-44)     *)
(* Positions count from 0 as in the code: dates[i] is Nth(dates, i).       *)
(***************************************************************************)
Nth(seq, i) == seq[i + 1]

\* dates[start:end] for 0 <= start and 0 <= end <= len(dates)
Slice(seq, start, end) ==
    IF start >= end THEN <<>> ELSE [k \in 1..(end - start) |-> seq[start + k]]

\* line 31: int(max_seq_len / 2)
HalfContextWindowSize(L) == TruncDiv(L, 2)

\* line 35: int(time_window_size / 2)
HalfTimeWindowSize(W) == TruncDiv(W, 2)

\* line 32
WindowStartIndex(call) ==
    Max(0, call.cursor - HalfContextWindowSize(call.max_seq_len))

\* line 33
WindowEndIndex(call) ==
    Min(call.cursor + HalfContextWindowSize(call.max_seq_len), Len(call.dates))

\* lines 36-37: context_dates - dates[cursor]
TimeDeltas(call) ==
    LET context_dates == Slice(call.dates, WindowStartIndex(call), WindowEndIndex(call))
    IN  [k \in 1..Len(context_dates) |-> context_dates[k] - Nth(call.dates, call.cursor)]

\* lines 38-42: np.argwhere over time_deltas, the positions counted from 0 within
\* context_dates
ContextIndexes(call) ==
    LET time_deltas == TimeDeltas(call)
        half == HalfTimeWindowSize(call.time_window_size)
    IN  {k - 1 : k \in {j \in 1..Len(time_deltas) :
                           time_deltas[j] >= 0 - half /\ time_deltas[j] <= half}}

\* line 44: np.min and np.max raise ValueError on an empty array
CreateIndexesByTimeWindow(call) ==
    LET context_indexes == ContextIndexes(call)
    IN  IF context_indexes = {}
        THEN [raised |-> TRUE, min_index |-> 0, max_index |-> 0]
        ELSE [raised |-> FALSE,
              min_index |-> SetMin(context_indexes),
              max_index |-> SetMax(context_indexes)]

MaxDates == 4       \* time stamps of one row
DateSteps == {0, 1, 3}

\* lines 587-588: the caller sorts the row by date
RECURSIVE SortedDates(_)
SortedDates(n) ==
    IF n = 1 THEN {<<0>>}
    ELSE {Append(d, d[n - 1] + g) : d \in SortedDates(n - 1), g \in DateSteps}

WindowCalls(n) ==
    [dates : SortedDates(n),
     cursor : 0..(n - 1),
     max_seq_len : 1..MaxDates,
     time_window_size : {0, 2, 3, 6}]

WindowIdle ==
    /\ window_call = <<>>
    /\ window_indexes = None

WindowInit ==
    /\ pc = "window"
    /\ \E n \in 1..MaxDates : window_call \in WindowCalls(n)
    /\ window_indexes = None

\* lines 20-44: the call returns or raises
CreateIndexes ==
    /\ pc = "window"
    /\ window_indexes' = Some(CreateIndexesByTimeWindow(window_call))
    /\ pc' = "windowed"
    /\ UNCHANGED window_call
    /\ UNCHANGED <<mapper_vars, merge_vars, slice_vars, sort_vars,
                   token_vars, tail_vars, batch_vars, gpt_vars>>

WindowNext == CreateIndexes

(***************************************************************************)
(* Tail truncation, the TAIL member of TruncationType                      *)
(* (hf_dataset_mapping.py, line 34); the window is computed as section 4.4 *)
(* of the specification describes it                                       *)
(***************************************************************************)
\* a window that keeps max_length tokens, without the slot of the leading token
TailTruncationFull(n, m) ==
    IF n > m THEN <<n - m, n>> ELSE <<0, n>>

\* (start_index, end_index): the final max_length - 1 tokens of an oversized
\* sequence, otherwise the whole sequence
TailTruncation(n, m) ==
    IF n > m - 1 THEN <<n - (m - 1), n>> ELSE <<0, n>>

MaxTailLength == 10    \* the longest sequence and the largest max_length

TailIdle ==
    /\ seq_len = 0
    /\ max_length = 0
    /\ tail_window = None

TailInit ==
    /\ pc = "tail"
    /\ seq_len \in 0..MaxTailLength
    /\ max_length \in 1..MaxTailLength
    /\ tail_window = None

TruncateTail ==
    /\ pc = "tail"
    /\ tail_window' = Some(TailTruncation(seq_len, max_length))
    /\ pc' = "truncated"
    /\ UNCHANGED <<seq_len, max_length>>
    /\ UNCHANGED <<mapper_vars, merge_vars, slice_vars, sort_vars,
                   token_vars, window_vars, batch_vars, gpt_vars>>

TailNext == TruncateTail

(***************************************************************************)
(* The drivers that run a transform over many records:                     *)
(*   DatasetMapping.batch_transform (hf_dataset_mapping.py, lines 39-43),  *)
(*   _meds_to_cehrbert_generator (meds_utils.py, lines 290-299),           *)
(*   create_batch_generator (data_generator_base.py, lines 159-183).       *)
(* A record is the outcome of its transform: "ok" or the error it raises.  *)
(***************************************************************************)
Outcomes == {"ok", "ValueError", "KeyError"}

\* data_generator_base.py, line 178: except (RuntimeError, ValueError)
CaughtErrors == {"RuntimeError", "ValueError"}

MaxRecords == 3     \* records handed to a driver
MaxEpochs == 2      \* iterators created by create_batch_generator

RowsDomain == UNION {[1..n -> Outcomes] : n \in 1..MaxRecords}

CeilDiv(a, b) == (a + b - 1) \div b

\* the drivers and, for create_batch_generator, its fields
Drivers(n) ==
    {[name |-> d, batch_size |-> 0, steps_per_epoch |-> 0, is_pretraining |-> FALSE] :
        d \in {"batch_transform", "_meds_to_cehrbert_generator"}}
    \cup
    UNION {[name : {"create_batch_generator"},
            batch_size : {b},
            steps_per_epoch : 1..CeilDiv(n, b),
            is_pretraining : BOOLEAN] : b \in 1..2}

BatchIdle ==
    /\ driver = <<>>
    /\ records = <<>>
    /\ position = 0
    /\ step = 0
    /\ epoch = 0
    /\ emitted = {}
    /\ propagated = None

BatchInit ==
    /\ records \in RowsDomain
    /\ driver \in Drivers(Len(records))
    /\ pc = driver.name
    /\ position = 0
    /\ step = 0
    /\ epoch = IF driver.name = "create_batch_generator" THEN 1 ELSE 0
    /\ emitted = {}
    /\ propagated = None

BatchFrame ==
    UNCHANGED <<mapper_vars, merge_vars, slice_vars, sort_vars,
                token_vars, window_vars, tail_vars, gpt_vars>>

\* hf_dataset_mapping.py, line 43: one more element of the list comprehension
BatchTransformRecord ==
    /\ pc = "batch_transform"
    /\ position < Len(records)
    /\ records[position + 1] = "ok"
    /\ position' = position + 1
    /\ UNCHANGED <<pc, driver, records, step, epoch, emitted, propagated>>
    /\ BatchFrame

\* line 43: self.transform raises; the list under construction is lost
BatchTransformRaises ==
    /\ pc = "batch_transform"
    /\ position < Len(records)
    /\ records[position + 1] # "ok"
    /\ propagated' = Some(records[position + 1])
    /\ pc' = "raised"
    /\ UNCHANGED <<driver, records, position, step, epoch, emitted>>
    /\ BatchFrame

\* line 43: the list of all results is returned
BatchTransformReturns ==
    /\ pc = "batch_transform"
    /\ position = Len(records)
    /\ emitted' = 1..Len(records)
    /\ pc' = "returned"
    /\ UNCHANGED <<driver, records, position, step, epoch, propagated>>
    /\ BatchFrame

\* meds_utils.py, lines 295-299: the next patient is converted and yielded
GeneratorYields ==
    /\ pc = "_meds_to_cehrbert_generator"
    /\ position < Len(records)
    /\ records[position + 1] = "ok"
    /\ emitted' = emitted \cup {position + 1}
    /\ position' = position + 1
    /\ UNCHANGED <<pc, driver, records, step, epoch, propagated>>
    /\ BatchFrame

\* line 299: convert_one_patient raises inside the generator, which ends with it
GeneratorRaises ==
    /\ pc = "_meds_to_cehrbert_generator"
    /\ position < Len(records)
    /\ records[position + 1] # "ok"
    /\ propagated' = Some(records[position + 1])
    /\ pc' = "raised"
    /\ UNCHANGED <<driver, records, position, step, epoch, emitted>>
    /\ BatchFrame

\* lines 295-299: the shards are exhausted
GeneratorReturns ==
    /\ pc = "_meds_to_cehrbert_generator"
    /\ position = Len(records)
    /\ pc' = "returned"
    /\ UNCHANGED <<driver, records, position, step, epoch, emitted, propagated>>
    /\ BatchFrame

\* data_generator_base.py, line 170: list(islice(iterator, self._batch_size))
BatchRows == (position + 1)..Min(position + driver.batch_size, Len(records))

\* lines 173-174: process_batch works through the rows and the first row that
\* fails raises its error
BatchFailures == {i \in BatchRows : records[i] # "ok"}

\* lines 181-182 and 164-166: leave the loop, or start over with a new iterator
EndOfEpoch ==
    IF ~driver.is_pretraining
    THEN /\ pc' = "returned"
         /\ UNCHANGED <<position, step, epoch>>
    ELSE /\ epoch < MaxEpochs
         /\ epoch' = epoch + 1
         /\ position' = 0
         /\ step' = 0
         /\ UNCHANGED pc

\* lines 169-177: one batch is sliced out, processed and yielded
BatchGeneratorYields ==
    /\ pc = "create_batch_generator"
    /\ step < driver.steps_per_epoch
    /\ BatchFailures = {}
    /\ emitted' = emitted \cup BatchRows
    /\ position' = Min(position + driver.batch_size, Len(records))
    /\ step' = step + 1
    /\ UNCHANGED <<pc, driver, records, epoch, propagated>>
    /\ BatchFrame

\* lines 168-179: the error leaves the for loop over the steps of the epoch and
\* is printed
BatchGeneratorCatches ==
    /\ pc = "create_batch_generator"
    /\ step < driver.steps_per_epoch
    /\ BatchFailures # {}
    /\ records[SetMin(BatchFailures)] \in CaughtErrors
    /\ EndOfEpoch
    /\ UNCHANGED <<driver, records, emitted, propagated>>
    /\ BatchFrame

\* lines 168-179: an error of another class leaves the generator
BatchGeneratorRaises ==
    /\ pc = "create_batch_generator"
    /\ step < driver.steps_per_epoch
    /\ BatchFailures # {}
    /\ records[SetMin(BatchFailures)] \notin CaughtErrors
    /\ propagated' = Some(records[SetMin(BatchFailures)])
    /\ pc' = "raised"
    /\ UNCHANGED <<driver, records, position, step, epoch, emitted>>
    /\ BatchFrame

\* lines 169, 181-182: all steps of the epoch were yielded
BatchGeneratorEpochEnds ==
    /\ pc = "create_batch_generator"
    /\ step = driver.steps_per_epoch
    /\ EndOfEpoch
    /\ UNCHANGED <<driver, records, emitted, propagated>>
    /\ BatchFrame

BatchNext ==
    \/ BatchTransformRecord
    \/ BatchTransformRaises
    \/ BatchTransformReturns
    \/ GeneratorYields
    \/ GeneratorRaises
    \/ GeneratorReturns
    \/ BatchGeneratorYields
    \/ BatchGeneratorCatches
    \/ BatchGeneratorRaises
    \/ BatchGeneratorEpochEnds

(***************************************************************************)
(* GptDataGenerator._create_iterator (data_generator_base.py, lines        *)
(* 356-424): what the loop body does with one row, the call of             *)
(* random_slice_gpt_sequence being the steps of the slicer above           *)
(***************************************************************************)
\* the tokenizer's ids of the visit markers and of every other concept
get_visit_end_token_id == 3
TokenId(code) == IF code = VE THEN get_visit_end_token_id ELSE IF code = VS THEN 2 ELSE 1

\* _concept_tokenizer.encode([concept_ids])[0]: one id for each concept
Encode(codes) == [k \in 1..Len(codes) |-> TokenId(codes[k])]

\* line 395, "if starting_index == end_index: continue"
IsDegenerateAtOrigin(result) == result[1] = 0 /\ result[2] = 0
IsDegenerate(result) == result[1] = result[2]

\* the slice from starting_index to the end of the row
WindowSliceToEnd(ids, starting_index, end_index) ==
    SubSeq(ids, starting_index + 1, Len(ids))

\* line 399: row.concept_ids[starting_index:end_index + 1]
WindowSlice(ids, starting_index, end_index) ==
    SubSeq(ids, starting_index + 1, Min(end_index + 1, Len(ids)))

\* lines 416-423: the offset of the last visit end among the first max_len token
\* ids, 0 when there is none
LastVeTokenIndex(token_ids, max_len) ==
    LET ends == {i \in 0..(Min(max_len, Len(token_ids)) - 1) :
                    token_ids[i + 1] = get_visit_end_token_id}
    IN  IF ends = {} THEN 0 ELSE SetMax(ends)

\* RowSlicer(row, start_index, end_index, record_status)
RowSlicer(token_ids, start_index, end_index, record_status) ==
    [token_ids |-> token_ids, start_index |-> start_index, end_index |-> end_index,
     record_status |-> record_status]

GptModes == {"random_cursor", "long_sequence", "neither"}
GptMaxSeqLens == {2, 6, 7}

GptIdle ==
    /\ gpt_mode = ""
    /\ gpt_row = None

GptInit ==
    /\ pc = "row"
    /\ concept_ids \in SliceInputs
    /\ max_seq_len \in GptMaxSeqLens
    /\ slice_result = None
    /\ gpt_mode \in GptModes
    /\ gpt_row = None

\* lines 386-387: the row fits the context window
GptYieldsRow ==
    /\ pc = "row"
    /\ Len(concept_ids) <= max_seq_len
    /\ gpt_row' = Some(RowSlicer(Encode(concept_ids), 0, Len(concept_ids), "COMPLETE"))
    /\ pc' = "yielded"
    /\ UNCHANGED <<gpt_mode, slice_vars, mapper_vars, merge_vars, sort_vars,
                   token_vars, window_vars, tail_vars, batch_vars>>

\* lines 388-393: random_slice_gpt_sequence is called for an over-long row
GptCallsSlicer ==
    /\ pc = "row"
    /\ Len(concept_ids) > max_seq_len
    /\ gpt_mode = "random_cursor"
    /\ pc' = "slice"
    /\ UNCHANGED <<gpt_vars, slice_vars, mapper_vars, merge_vars, sort_vars,
                   token_vars, window_vars, tail_vars, batch_vars>>

\* lines 394-396: a window with starting_index == end_index yields nothing
GptSkipsWindow ==
    /\ pc = "sliced"
    /\ gpt_mode = "random_cursor"
    /\ IsDegenerate(Val(slice_result))
    /\ pc' = "skipped"
    /\ UNCHANGED <<gpt_vars, slice_vars, mapper_vars, merge_vars, sort_vars,
                   token_vars, window_vars, tail_vars, batch_vars>>

\* lines 398-411: the window is cut out, encoded, checked against the context
\* window and yielded
GptYieldsWindow ==
    /\ pc = "sliced"
    /\ gpt_mode = "random_cursor"
    /\ ~IsDegenerate(Val(slice_result))
    /\ \E token_ids \in {Encode(WindowSlice(concept_ids, Val(slice_result)[1],
                                            Val(slice_result)[2]))} :
          IF Len(token_ids) <= max_seq_len
          THEN /\ gpt_row' = Some(RowSlicer(token_ids, 0, Len(token_ids), "TRUNCATION"))
               /\ pc' = "yielded"
          ELSE /\ gpt_row' = None
               /\ pc' = "AssertionError"
    /\ UNCHANGED <<gpt_mode, slice_vars, mapper_vars, merge_vars, sort_vars,
                   token_vars, window_vars, tail_vars, batch_vars>>

\* lines 414-424: the row is cut after the last visit end inside the context window
GptYieldsRightTruncated ==
    /\ pc = "row"
    /\ Len(concept_ids) > max_seq_len
    /\ gpt_mode = "long_sequence"
    /\ gpt_row' = Some(RowSlicer(Encode(concept_ids), 0,
                                 LastVeTokenIndex(Encode(concept_ids), max_seq_len) + 1,
                                 "RIGHT_TRUNCATION"))
    /\ pc' = "yielded"
    /\ UNCHANGED <<gpt_mode, slice_vars, mapper_vars, merge_vars, sort_vars,
                   token_vars, window_vars, tail_vars, batch_vars>>

\* lines 384-424: an over-long row with neither option set yields nothing
GptSkipsRow ==
    /\ pc = "row"
    /\ Len(concept_ids) > max_seq_len
    /\ gpt_mode = "neither"
    /\ pc' = "skipped"
    /\ UNCHANGED <<gpt_vars, slice_vars, mapper_vars, merge_vars, sort_vars,
                   token_vars, window_vars, tail_vars, batch_vars>>

GptNext ==
    \/ GptYieldsRow
    \/ GptCallsSlicer
    \/ SliceUnpackRaises
    \/ RandomSliceGptSequence
    \/ GptSkipsWindow
    \/ GptYieldsWindow
    \/ GptYieldsRightTruncated
    \/ GptSkipsRow

DriversIdle == TokenIdle /\ WindowIdle /\ TailIdle /\ BatchIdle /\ GptIdle

(***************************************************************************)
(* The specifications, one per operation                                   *)
(***************************************************************************)
MapperIdle ==
    /\ data_args = <<>>
    /\ birth_datetime = 0
    /\ visits = <<>>
    /\ cehrbert_record = EmptyRecord
    /\ visit_segment_indicator = FALSE
    /\ date_cursor = None
    /\ frame = NoFrame

Init == MapperInit /\ MergeIdle /\ SliceIdle /\ SortIdle /\ DriversIdle
Next == MapperNext
Spec == Init /\ [][Next]_vars

\* the mapper followed by the normalizer
PipelineNext ==
    \/ MapperNext
    \/ SortMappedRecord
SpecPipeline == Init /\ [][PipelineNext]_vars

InitMerge == MergeInit /\ MapperIdle /\ SliceIdle /\ SortIdle /\ DriversIdle
SpecMerge == InitMerge /\ [][MergeNext]_vars

InitSlice == SliceInit /\ MapperIdle /\ MergeIdle /\ SortIdle /\ DriversIdle
SpecSlice == InitSlice /\ [][SliceNext]_vars

InitSort == SortInit /\ MapperIdle /\ MergeIdle /\ SliceIdle /\ DriversIdle
SpecSort == InitSort /\ [][SortNext]_vars

BaseIdle == MapperIdle /\ MergeIdle /\ SliceIdle /\ SortIdle

InitTokenize == TokenInit /\ BaseIdle /\ WindowIdle /\ TailIdle /\ BatchIdle /\ GptIdle
SpecTokenize == InitTokenize /\ [][TokenNext]_vars

InitWindow == WindowInit /\ BaseIdle /\ TokenIdle /\ TailIdle /\ BatchIdle /\ GptIdle
SpecWindow == InitWindow /\ [][WindowNext]_vars

InitTail == TailInit /\ BaseIdle /\ TokenIdle /\ WindowIdle /\ BatchIdle /\ GptIdle
SpecTail == InitTail /\ [][TailNext]_vars

InitGpt ==
    /\ GptInit
    /\ MapperIdle /\ MergeIdle /\ SortIdle
    /\ TokenIdle /\ WindowIdle /\ TailIdle /\ BatchIdle
SpecGpt == InitGpt /\ [][GptNext]_vars

InitBatch == BatchInit /\ BaseIdle /\ TokenIdle /\ WindowIdle /\ TailIdle /\ GptIdle
SpecBatch == InitBatch /\ [][BatchNext]_vars

(***************************************************************************)
(* Properties of the records MedToCehrBertDatasetMapping.transform returns *)
(***************************************************************************)
Returned == pc = "done"
Positions == 1..Len(cehrbert_record.concept_ids)


\* the codes the time token functions produce between visits
GapDays == (0 - 40)..400
GapCodes == {time_token_func(d) : d \in GapDays} \cup {time_day_token(d) : d \in GapDays}

PromptLength == IF data_args.include_demographic_prompt THEN 4 ELSE 0
IsPromptPosition(p) == p <= PromptLength
IsGapPosition(p) ==
    ~IsPromptPosition(p) /\ cehrbert_record.concept_ids[p] \in GapCodes
GapPositions == {p \in Positions : IsGapPosition(p)}

\* the visits, by their place in the sorted visit list, that have measurements
EmittedVisits ==
    {k \in 1..Len(visits) : GetMeasurementsFromVisit(visits[k].events) # <<>>}

\* the positions of the tokens of visit k
VisitTokens(k) ==
    {p \in Positions : /\ cehrbert_record.visit_concept_orders[p] = k
                       /\ ~IsGapPosition(p)
                       /\ ~IsPromptPosition(p)}

StartPositions == {p \in Positions : cehrbert_record.concept_ids[p] = "[VS]"}
\* the number of visit starts up to position p
StartRank(p) == Cardinality({q \in StartPositions : q <= p})

\* C1: in every returned record the ten arrays concept_ids, ages, dates,
\* visit_segments, visit_concept_orders, visit_concept_ids, concept_values,
\* concept_value_masks, mlm_skip_values and orders have the same length
RecordArraysSameLength ==
    Returned =>
        \A a, b \in ArrayFields : Len(cehrbert_record[a]) = Len(cehrbert_record[b])

\* a returned record with the prompt, a gap token and two visits
RecordArraysWitness ==
    /\ Returned
    /\ data_args.include_demographic_prompt
    /\ GapPositions # {}
    /\ Cardinality(EmittedVisits) >= 2
    /\ Len(cehrbert_record.orders) >= 10

\* every token of a visit carries 1 or 2, the same within the visit, 1 for the
\* first emitted visit, 2 for the second, and so on in alternation
VisitSegmentsAlternate ==
    \A p \in Positions :
        (~IsGapPosition(p) /\ ~IsPromptPosition(p)) =>
            /\ StartRank(p) >= 1
            /\ cehrbert_record.visit_segments[p] =
                   (IF StartRank(p) % 2 = 1 THEN 1 ELSE 2)

\* C2 as stated: the segments alternate over the emitted visits, and the segment
\* is 0 on the gap tokens and on no other token
SegmentZeroOnlyOnGapTokens ==
    Returned =>
        /\ VisitSegmentsAlternate
        /\ \A p \in Positions :
              cehrbert_record.visit_segments[p] = 0 <=> IsGapPosition(p)

\* C2: the segments are 1 or 2 on every token of a visit, constant within the visit
\* and alternating 1, 2, 1, 2 over the emitted visits; the segment is 0 on the gap
\* tokens and on the four demographic prompt tokens, and on no other token
SegmentZeroOnlyOnGapAndPromptTokens ==
    Returned =>
        /\ VisitSegmentsAlternate
        /\ \A p \in Positions :
              cehrbert_record.visit_segments[p] = 0
                  <=> (IsGapPosition(p) \/ IsPromptPosition(p))

\* a returned record with the prompt, two emitted visits and a gap token between
SegmentWitness ==
    /\ Returned
    /\ data_args.include_demographic_prompt
    /\ Cardinality(EmittedVisits) >= 2
    /\ GapPositions # {}
    /\ \E p \in Positions : cehrbert_record.visit_segments[p] = 2

\* C3: every emitted visit has exactly one [VS] and one [VE], the [VS] first, all
\* the tokens of the visit between the two, and no marker of another visit between
VisitMarkersBracket ==
    Returned =>
        /\ \A k \in 1..Len(visits) :
              LET T == VisitTokens(k)
              IN  IF k \in EmittedVisits
                  THEN /\ T # {}
                       /\ T = SetMin(T)..SetMax(T)
                       /\ SetMin(T) < SetMax(T)
                       /\ cehrbert_record.concept_ids[SetMin(T)] = "[VS]"
                       /\ cehrbert_record.concept_ids[SetMax(T)] = "[VE]"
                       /\ \A p \in (SetMin(T) + 1)..(SetMax(T) - 1) :
                             cehrbert_record.concept_ids[p] \notin {"[VS]", "[VE]"}
                  ELSE T = {}
        /\ \A p \in Positions :
              cehrbert_record.concept_ids[p] \in {"[VS]", "[VE]"} =>
                  cehrbert_record.visit_concept_orders[p] \in EmittedVisits

\* a returned record of two emitted visits, the second with a time token inside
VisitMarkersWitness ==
    /\ Returned
    /\ Cardinality(EmittedVisits) >= 2
    /\ Cardinality(StartPositions) >= 2
    /\ \E p \in Positions : cehrbert_record.concept_ids[p] = "i-D7"

\* the measurements of visit k that carry a numeric value
ValuedMeasurements(k) ==
    LET ms == GetMeasurementsFromVisit(visits[k].events)
    IN  {j \in 1..Len(ms) : ~IsNone(ms[j].numeric_value)}

RECURSIVE SumOver(_, _)
SumOver(S, n) ==
    IF S = {} THEN n
    ELSE LET k == CHOOSE x \in S : TRUE
         IN  SumOver(S \ {k}, n + Cardinality(ValuedMeasurements(k)))

\* the token at p is the token of a measurement of its visit that carries the
\* numeric value concept_values[p]
IsValuedEventPosition(p) ==
    LET k == cehrbert_record.visit_concept_orders[p]
    IN  /\ k \in EmittedVisits
        /\ \E m \in Range(GetMeasurementsFromVisit(visits[k].events)) :
              /\ m.code = cehrbert_record.concept_ids[p]
              /\ m.numeric_value = Some(cehrbert_record.concept_values[p])

\* C4 as stated: the mask is 1 exactly where the value is not -1
MaskIffValueNotSentinel ==
    Returned =>
        \A p \in Positions :
            cehrbert_record.concept_value_masks[p] = 1
                <=> cehrbert_record.concept_values[p] # NoValue

\* C4: a value other than -1 implies mask 1, and the mask is 1 exactly on the
\* tokens of the events that carry a numeric value, the value of the token; an
\* event that carries the value -1 itself has mask 1 and value -1
MaskIffEventHasValue ==
    Returned =>
        /\ \A p \in Positions :
              /\ cehrbert_record.concept_value_masks[p] \in {0, 1}
              /\ cehrbert_record.concept_values[p] # NoValue
                    => cehrbert_record.concept_value_masks[p] = 1
              /\ cehrbert_record.concept_value_masks[p] = 1
                    => IsValuedEventPosition(p)
        /\ Cardinality({p \in Positions : cehrbert_record.concept_value_masks[p] = 1})
              = SumOver(EmittedVisits, 0)

\* a returned record with an event of value 0.5 and an event of value -1
MaskWitness ==
    /\ Returned
    /\ \E p, q \in Positions :
          /\ cehrbert_record.concept_value_masks[p] = 1
          /\ cehrbert_record.concept_values[p] = 5
          /\ cehrbert_record.concept_value_masks[q] = 1
          /\ cehrbert_record.concept_values[q] = NoValue
    /\ \E p \in Positions :
          /\ cehrbert_record.concept_ids[p] = "320128"
          /\ cehrbert_record.concept_value_masks[p] = 0

\* C5: every gap token between two visits carries the visit_concept_order of the
\* visit that follows it, greater than that of the visit before it, and age -1,
\* date 0 and visit_segment 0
GapTokenCarriesFollowingOrder ==
    Returned =>
        \A p \in GapPositions :
            /\ cehrbert_record.ages[p] = -1
            /\ cehrbert_record.dates[p] = 0
            /\ cehrbert_record.visit_segments[p] = 0
            /\ p > 1 /\ p < Len(cehrbert_record.concept_ids)
            /\ cehrbert_record.concept_ids[p + 1] = "[VS]"
            /\ cehrbert_record.visit_concept_orders[p] =
                   cehrbert_record.visit_concept_orders[p + 1]
            /\ cehrbert_record.concept_ids[p - 1] = "[VE]"
            /\ cehrbert_record.visit_concept_orders[p - 1] <
                   cehrbert_record.visit_concept_orders[p]

\* a returned record with a gap token between its two visits
GapTokenWitness ==
    /\ Returned
    /\ \E p \in GapPositions :
          /\ cehrbert_record.visit_concept_orders[p] = 2
          /\ cehrbert_record.visit_concept_orders[p - 1] = 1

\* the patient and the configuration of test_transform_basic
ReferenceArgs ==
    [include_demographic_prompt |-> FALSE,
     include_auxiliary_token |-> TRUE,
     att_function_type |-> "cehr_bert",
     inpatient_att_function_type |-> "none"]

ReferenceVisits ==
    << [visit_type |-> "9202",
        visit_start_datetime |-> Datetime(2024, 4, 14, 0),
        visit_end_datetime |-> None,
        discharge_facility |-> "0",
        events |-> << [time |-> Datetime(2024, 4, 14, 1),
                       measurements |-> << [code |-> "320128",
                                            numeric_value |-> None] >>] >>],
       [visit_type |-> "9201",
        visit_start_datetime |-> Datetime(2024, 4, 21, 0),
        visit_end_datetime |-> Some(Datetime(2024, 4, 22, 0)),
        discharge_facility |-> "8536",
        events |-> << [time |-> Datetime(2024, 4, 21, 0),
                       measurements |-> << [code |-> "320128",
                                            numeric_value |-> None] >>],
                      [time |-> Datetime(2024, 4, 22, 0),
                       measurements |-> << [code |-> "4134120",
                                            numeric_value |-> Some(5)] >>] >>] >>

IsReferencePatient ==
    /\ birth_datetime = Datetime(1980, 4, 14, 0)
    /\ visits = ReferenceVisits

\* the arrays test_transform_basic expects (values in tenths)
ReferenceOutput ==
    /\ cehrbert_record.concept_ids =
          <<"[VS]", "9202", "320128", "[VE]", "W1", "[VS]", "9201", "320128",
            "4134120", "8536", "[VE]">>
    /\ cehrbert_record.ages = <<44, 44, 44, 44, -1, 44, 44, 44, 44, 44, 44>>
    /\ cehrbert_record.dates =
          <<2832, 2832, 2832, 2832, 0, 2833, 2833, 2833, 2833, 2833, 2833>>
    /\ cehrbert_record.visit_segments = <<1, 1, 1, 1, 0, 2, 2, 2, 2, 2, 2>>
    /\ cehrbert_record.visit_concept_orders = <<1, 1, 1, 1, 2, 2, 2, 2, 2, 2, 2>>
    /\ cehrbert_record.concept_value_masks = <<0, 0, 0, 0, 0, 0, 0, 0, 1, 0, 0>>
    /\ cehrbert_record.mlm_skip_values = <<0, 0, 0, 0, 0, 0, 0, 0, 1, 0, 0>>
    /\ cehrbert_record.concept_values =
          <<NoValue, NoValue, NoValue, NoValue, NoValue, NoValue, NoValue, NoValue,
            5, NoValue, NoValue>>

EmittedRank(k) == Cardinality({j \in EmittedVisits : j <= k})

\* C18 as stated: the tokens of the i-th visit, i counted from 1, carry the segment
\* (i mod 2) + 1
SegmentOfVisitIndex ==
    Returned =>
        \A k \in EmittedVisits :
            \A p \in VisitTokens(k) :
                cehrbert_record.visit_segments[p] = (k % 2) + 1

\* C18: the tokens of the i-th emitted visit, i counted from 1 over the visits that
\* have measurements, carry the segment ((i - 1) mod 2) + 1: 1 for the first
SegmentOfEmittedRank ==
    Returned =>
        \A k \in EmittedVisits :
            \A p \in VisitTokens(k) :
                cehrbert_record.visit_segments[p] = ((EmittedRank(k) - 1) % 2) + 1

\* a visit without measurements before an emitted visit, which is the first emitted
SegmentRankWitness ==
    /\ Returned
    /\ EmittedVisits = {2}
    /\ VisitTokens(2) # {}
    /\ \A p \in VisitTokens(2) : cehrbert_record.visit_segments[p] = 1

\* the visit iteration under way has emitted its start marker
InVisit == pc = "measure"
CurrentStart == SetMax(StartPositions)

\* C19: the start marker of an emitted visit has one gap token right before it if
\* the day-gap from the time cursor to the visit start is greater than 0, and none
\* if there is no earlier visit or the gap is zero or negative
GapTokenIffPositiveGap ==
    InVisit =>
        /\ (CurrentStart > 1 /\ IsGapPosition(CurrentStart - 1))
              <=> (~IsNone(frame.time_delta) /\ Val(frame.time_delta) > 0)
        /\ CurrentStart > 2 =>
              ~(IsGapPosition(CurrentStart - 1) /\ IsGapPosition(CurrentStart - 2))

\* the measurement loop is about to handle an event with the inpatient time token
\* function configured
InpatientTokenStep ==
    /\ pc = "measure"
    /\ frame.measurements # <<>>
    /\ data_args.inpatient_att_function_type # "none"

\* C20: an event is emitted with an inpatient gap token right before it if and only
\* if its time is at least one day after the time cursor, the time of the last
\* event that moved it
InpatientGapTokenIffDayLater ==
    [][ (InpatientTokenStep /\ pc' = "measure") =>
          LET m == Head(frame.measurements)
              added == Len(cehrbert_record'.concept_ids) - Len(cehrbert_record.concept_ids)
          IN  /\ added \in {1, 2}
              /\ added = 2 <=> m.datetime_value - Val(date_cursor) >= HoursPerDay ]_vars

(***************************************************************************)
(* Properties of the merge scan of convert_one_patient                     *)
(***************************************************************************)
\* whole hours from the end of block a to the start of the later block b
HoursBetween(a, b) == patient_blocks[b].min_time - patient_blocks[a].max_time

\* C7: when the scan reaches an admission block while an ED block is active, the
\* admission starts at the ED block if the admission block starts at most 24 hours
\* after the end of the ED block and at the admission block itself otherwise, and
\* active_ed_index is cleared either way
EdMergedIffWithin24Hours ==
    [][ (pc = "scan" /\ loop_index < Len(patient_blocks)) =>
          LET i == loop_index + 1
              ed == EdIndexAt(i, active_ed_index, active_admission_index)
          IN  (/\ patient_blocks[i].has_admission
               /\ ~patient_blocks[i].has_discharge
               /\ ~IsNone(ed)) =>
                  /\ HoursBetween(Val(ed), i) <= 24 => active_admission_index' = ed
                  /\ HoursBetween(Val(ed), i) > 24 => active_admission_index' = Some(i)
                  /\ active_ed_index' = None ]_vars

\* C8: when a pair is handled whose discharge block has a block after it, that
\* block takes the visit id of the admission and the inpatient type if it starts
\* at most 12 hours after the end of the discharge block, and keeps its own visit
\* id and type otherwise
TrailingBlockAbsorbedIffWithin12Hours ==
    [][ (pc = "reassign" /\ loop_index < Len(admit_discharge_pairs)) =>
          LET admit_index == admit_discharge_pairs[loop_index + 1][1]
              discharge_index == admit_discharge_pairs[loop_index + 1][2]
              next == discharge_index + 1
          IN  (/\ next <= Len(patient_blocks)
               /\ patient_blocks[discharge_index].has_discharge) =>
                  /\ HoursBetween(discharge_index, next) <= 12 =>
                        /\ patient_blocks'[next].visit_id =
                               patient_blocks[admit_index].visit_id
                        /\ patient_blocks'[next].visit_type = DEFAULT_INPATIENT_CONCEPT_ID
                  /\ HoursBetween(discharge_index, next) > 12 =>
                        /\ patient_blocks'[next].visit_id = patient_blocks[next].visit_id
                        /\ patient_blocks'[next].visit_type =
                               patient_blocks[next].visit_type ]_vars

Converted == pc = "converted"
ReturnedVisits == Val(cehrbert_patient).visits

\* C15: every Visit of the patient returned has at least one event and does not
\* end before it starts
VisitsWellFormed ==
    Converted =>
        \A k \in 1..Len(ReturnedVisits) :
            /\ ReturnedVisits[k].events # <<>>
            /\ ReturnedVisits[k].visit_start_datetime <= ReturnedVisits[k].visit_end_datetime

\* a visit merged from blocks of several days
VisitsWitness ==
    /\ Converted
    /\ \E k \in 1..Len(ReturnedVisits) :
          /\ Len(ReturnedVisits[k].events) >= 3
          /\ ReturnedVisits[k].visit_start_datetime + HoursPerDay
                 <= ReturnedVisits[k].visit_end_datetime

\* the scan is about to handle an admission block while an admission is active
SecondAdmission ==
    /\ pc = "scan"
    /\ loop_index < Len(patient_blocks)
    /\ patient_blocks[loop_index + 1].has_admission
    /\ ~IsNone(active_admission_index)

\* the admission that the scan of the block loop_index + 1 leaves active, or that it
\* closes with the discharge of that very block
AdmissionAfterBlock ==
    IF patient_blocks[loop_index + 1].has_discharge
    THEN IF Len(admit_discharge_pairs') > Len(admit_discharge_pairs)
         THEN Some(admit_discharge_pairs'[Len(admit_discharge_pairs')][1])
         ELSE None
    ELSE active_admission_index'

\* C16 as stated: an admission block met while an admission is active leaves the
\* earlier admission in place, so the visit closed by the next discharge starts at
\* the earliest admission block
OverlappingAdmissionsKeepEarliest ==
    [][ SecondAdmission => AdmissionAfterBlock = active_admission_index ]_vars

\* C16: an admission block met while an admission is active replaces it, so the
\* visit closed by the next discharge starts at the latest admission block and the
\* blocks of the earlier admission stay out of it
OverlappingAdmissionsKeepLatest ==
    [][ SecondAdmission => AdmissionAfterBlock = Some(loop_index + 1) ]_vars

\* the second of two admission blocks without a discharge has just been scanned
OverlappingAdmissionsWitness ==
    /\ pc = "scan"
    /\ loop_index >= 2
    /\ patient_blocks[loop_index - 1].has_admission
    /\ ~patient_blocks[loop_index - 1].has_discharge
    /\ patient_blocks[loop_index].has_admission
    /\ ~patient_blocks[loop_index].has_discharge
    /\ active_admission_index = Some(loop_index)

\* the scan and the reassignment are over with an admission still active
DanglingAdmission ==
    /\ pc \in {"converted", "raised"}
    /\ ~IsNone(active_admission_index)

DanglingSpan == Val(active_admission_index)..Len(patient_blocks)

DanglingSpanClosed ==
    <<Val(active_admission_index), Len(patient_blocks)>> \in Range(admit_discharge_pairs)

\* the visit id the block got when it was built (lines 120-147)
OwnVisitId(k) == DefaultVisitId + k - 1

FollowsClosedVisit(k) == \E j \in 1..Len(admit_discharge_pairs) :
                             admit_discharge_pairs[j][2] = k - 1

DanglingSpanMergedIffCutoff ==
    /\ DanglingSpanClosed <=> ~IsNone(prediction_time)
    /\ ~IsNone(prediction_time) =>
          \A k \in DanglingSpan :
              /\ patient_blocks[k].visit_id =
                     patient_blocks[Val(active_admission_index)].visit_id
              /\ patient_blocks[k].visit_type = DEFAULT_INPATIENT_CONCEPT_ID

\* C17 as stated: the span from the dangling admission to the last block is closed
\* as one inpatient visit exactly when a prediction time was given, and without one
\* every block of the span keeps its own visit id
DanglingAdmissionUnmergedWithoutCutoff ==
    DanglingAdmission =>
        /\ DanglingSpanMergedIffCutoff
        /\ IsNone(prediction_time) =>
              \A k \in DanglingSpan : patient_blocks[k].visit_id = OwnVisitId(k)

\* C17: as above, but without a prediction time a block of the span keeps its own
\* visit id if it does not come right after the discharge block of a closed visit
DanglingAdmissionUnmergedUnlessTrailing ==
    DanglingAdmission =>
        /\ DanglingSpanMergedIffCutoff
        /\ IsNone(prediction_time) =>
              \A k \in DanglingSpan :
                  ~FollowsClosedVisit(k) => patient_blocks[k].visit_id = OwnVisitId(k)

\* a dangling admission followed by one more block, closed by the prediction time
DanglingAdmissionWitness ==
    /\ DanglingAdmission
    /\ ~IsNone(prediction_time)
    /\ Val(active_admission_index) < Len(patient_blocks)
    /\ DanglingSpanClosed
    /\ \A k \in DanglingSpan :
          patient_blocks[k].visit_id = OwnVisitId(Val(active_admission_index))

(***************************************************************************)
(* Properties of the results of random_slice_gpt_sequence                  *)
(***************************************************************************)
Sliced == pc = "sliced"
SliceStart == Val(slice_result)[1]
SliceEnd == Val(slice_result)[2]
SliceDemographics == Val(slice_result)[3]

\* the offsets of the visit starts in the range of the forward scan
CandidateOffsets ==
    {i \in 4..(Max(5, Len(concept_ids) - max_seq_len) - 1) :
        i < Len(concept_ids) /\ concept_ids[i + 1] = VS}

SliceAnchored ==
    /\ SliceStart \in CandidateOffsets
    /\ SliceEnd < Len(concept_ids)
    /\ concept_ids[SliceEnd + 1] = VE

\* C9 as stated: every result with start # end, on any input, starts on a
\* candidate visit start and ends on a visit end
EveryWindowAnchored ==
    (Sliced /\ SliceStart # SliceEnd) => SliceAnchored

\* C9: every result with start # end other than the fallback of a failed call
\* (0, max_seq_len - 1, no demographic tokens) starts on a candidate visit start and
\* ends on a later visit end inside the window; a result without demographic
\* tokens is that fallback
WindowAnchoredUnlessFallback ==
    Sliced =>
        /\ (SliceDemographics # <<>> /\ SliceStart # SliceEnd) =>
              /\ SliceAnchored
              /\ SliceStart < SliceEnd
              /\ SliceEnd <= SliceStart + max_seq_len - 5
        /\ SliceDemographics = <<>> =>
              (SliceStart = 0 /\ SliceEnd = max_seq_len - 1)

\* a window that starts on a visit start after the first one and ends on a visit end
WindowWitness ==
    /\ Sliced
    /\ SliceDemographics # <<>>
    /\ SliceStart # SliceEnd
    /\ SliceStart > 4
    /\ Cardinality(CandidateOffsets) >= 2

(***************************************************************************)
(* Properties of the records SortPatientSequenceMapping.transform returns  *)
(***************************************************************************)
Sorted == pc = "sorted"
OrderingKey == IF record["orders"] # <<>> THEN record["orders"] ELSE record["dates"]
SequenceLength == Len(record["concept_ids"])
SequenceColumns ==
    {k \in DOMAIN record \cap ListFields : Len(record[k]) = SequenceLength}
RowPermutations(n) == {f \in [1..n -> 1..n] : \A a, b \in 1..n : a # b => f[a] # f[b]}
RowKey(k) == <<OrderingKey[k], CodeRank(record["concept_ids"][k])>>

\* C10: with a non-empty ordering key (orders, otherwise dates) the returned arrays
\* are the sequence-length arrays of the input under one common permutation of the
\* positions, ascending by (key, concept_id), rows that tie on both in input order
SortedByOneStablePermutation ==
    (Sorted /\ OrderingKey # <<>>) =>
        /\ DOMAIN Val(sorted_record) = SequenceColumns
        /\ \E perm \in RowPermutations(SequenceLength) :
              /\ \A k \in SequenceColumns :
                    Val(sorted_record)[k] =
                        [p \in 1..SequenceLength |-> record[k][perm[p]]]
              /\ \A p, q \in 1..SequenceLength :
                    p < q =>
                        \/ KeyLess(RowKey(perm[p]), RowKey(perm[q]))
                        \/ (RowKey(perm[p]) = RowKey(perm[q]) /\ perm[p] < perm[q])

\* a record that the sort reorders, where the concept_id decides between two rows of
\* equal key and two rows tie on both
SortedWitness ==
    /\ Sorted
    /\ OrderingKey # <<>>
    /\ Val(sorted_record)["concept_ids"] # record["concept_ids"]
    /\ \E a, b \in 1..SequenceLength :
          /\ a < b
          /\ OrderingKey[a] = OrderingKey[b]
          /\ CodeRank(record["concept_ids"][b]) < CodeRank(record["concept_ids"][a])
    /\ \E a, b \in 1..SequenceLength :
          /\ a < b
          /\ RowKey(a) = RowKey(b)
          /\ record["ages"][a] # record["ages"][b]

(***************************************************************************)
(* Properties of the record HFTokenizationMapping.transform returns        *)
(***************************************************************************)
Tokenized == pc = "tokenized" /\ ~Val(hf_output).raised
Labelling == Tokenized /\ is_pretraining /\ HasSkipValues(hf_record)

\* C11: in pretraining mode the record returned for a record with mlm_skip_values
\* carries labels as long as input_ids, -100 at every position whose mlm_skip_value
\* is 1 and the input id at every position whose mlm_skip_value is 0, and its
\* input_ids are the ids the tokenizer returned
LabelsBlockValuePositions ==
    Labelling =>
        LET out == Val(hf_output)
            mlm_skip_values == Val(hf_record.mlm_skip_values)
        IN  /\ ~IsNone(out.labels)
            /\ Len(Val(out.labels)) = Len(out.input_ids)
            /\ Len(mlm_skip_values) = Len(out.input_ids)
            /\ \A i \in 1..Len(mlm_skip_values) :
                  /\ mlm_skip_values[i] = 1 => Val(out.labels)[i] = 0 - 100
                  /\ mlm_skip_values[i] = 0 => Val(out.labels)[i] = out.input_ids[i]
            /\ out.input_ids = out.encoded

\* three tokens, the middle one carrying a value
LabelsWitness ==
    /\ Labelling
    /\ Val(hf_record.mlm_skip_values) = <<0, 1, 0>>
    /\ Val(hf_output).encoded = <<7, 7, 0>>
    /\ Val(Val(hf_output).labels) = <<7, 0 - 100, 0>>

(***************************************************************************)
(* Properties of create_indexes_by_time_window                             *)
(***************************************************************************)
Windowed == pc = "windowed" /\ ~Val(window_indexes).raised

\* the positions of dates within L/2 of the pivot and within W/2 of its date
WindowPositions ==
    LET c == window_call.cursor
        n == Len(window_call.dates)
        L == window_call.max_seq_len
        W == window_call.time_window_size
    IN  {i \in 0..(n - 1) :
            /\ Max(0, c - L \div 2) <= i
            /\ i < Min(c + L \div 2, n)
            /\ 0 - (W \div 2) <= Nth(window_call.dates, i) - Nth(window_call.dates, c)
            /\ Nth(window_call.dates, i) - Nth(window_call.dates, c) <= W \div 2}

\* C12: the indexes returned are the smallest and the largest position of the
\* dates array that lies in the position window and in the time window of the
\* pivot, so that the pivot lies between them
IndexesAreOriginalPositions ==
    Windowed =>
        /\ Val(window_indexes).min_index = SetMin(WindowPositions)
        /\ Val(window_indexes).max_index = SetMax(WindowPositions)
        /\ Val(window_indexes).min_index <= window_call.cursor
        /\ window_call.cursor <= Val(window_indexes).max_index

(***************************************************************************)
(* Properties of the drivers                                               *)
(***************************************************************************)
DriverDone == pc \in {"returned", "raised"}

\* C13: when the driver is through, every record whose transform does not raise
\* was transformed and emitted, whatever the records before or after it do
OnlyFailingRecordsDropped ==
    DriverDone =>
        \A i \in 1..Len(records) : records[i] = "ok" => i \in emitted

(***************************************************************************)
(* Properties of tail truncation                                           *)
(***************************************************************************)
Truncated == pc = "truncated"

\* C14: the window has min(seq_len, max_length - 1) tokens and ends at seq_len; it
\* starts at seq_len - (max_length - 1) when the sequence is longer than
\* max_length - 1 and at 0 otherwise
TailWindowKeepsLastTokens ==
    Truncated =>
        LET start_index == Val(tail_window)[1]
            end_index == Val(tail_window)[2]
        IN  /\ end_index - start_index = Min(seq_len, max_length - 1)
            /\ end_index = seq_len
            /\ seq_len > max_length - 1 => start_index = seq_len - (max_length - 1)
            /\ seq_len <= max_length - 1 => start_index = 0

\* a sequence of 9 tokens cut to the last 4 for max_length 5
TailWindowWitness ==
    /\ Truncated
    /\ seq_len = 9
    /\ max_length = 5
    /\ tail_window = Some(<<5, 9>>)

(***************************************************************************)
(* Properties of SortPatientSequenceMapping.transform applied twice        *)
(***************************************************************************)
Resorted == pc = "resorted"

\* C21: for a record with an ordering key, the arrays of the second application
\* are the arrays of the first, field by field and in the same order
SortIsIdempotent ==
    (Resorted /\ OrderingKey # <<>>) => Val(resorted_record) = Val(sorted_record)

\* a record the first application reorders, with dates that disagree with the orders
SortIdempotentWitness ==
    /\ Resorted
    /\ record["orders"] # <<>>
    /\ record["dates"] # <<>>
    /\ Val(sorted_record)["concept_ids"] # record["concept_ids"]
    /\ \E a, b \in 1..SequenceLength :
          /\ Val(sorted_record)["orders"][a] < Val(sorted_record)["orders"][b]
          /\ Val(sorted_record)["dates"][a] > Val(sorted_record)["dates"][b]

\* C29: the returned record has the field names of the input, and every field that
\* is not a sequence-length array keeps its value
SortKeepsFrame ==
    Sorted =>
        /\ DOMAIN Val(sorted_record) = DOMAIN record
        /\ \A k \in DOMAIN record \ SequenceColumns : Val(sorted_record)[k] = record[k]

(***************************************************************************)
(* Properties of the normalizer run on the record the mapper returns       *)
(***************************************************************************)
Normalized == pc = "normalized"

\* C22: the normalizer leaves the element order of every array field of a record the
\* mapper has just returned unchanged
SortKeepsMapperOrder ==
    Normalized =>
        \A k \in DOMAIN Val(sorted_record) : Val(sorted_record)[k] = cehrbert_record[k]

\* a returned record of two visits in which a token is followed by a token of the
\* same date with a smaller concept_id, so that a sort on the date would move it
SortKeepsMapperOrderWitness ==
    /\ Normalized
    /\ Len(visits) = 2
    /\ ArrayFields \subseteq DOMAIN Val(sorted_record)
    /\ \E a, b \in 1..Len(cehrbert_record.concept_ids) :
          /\ a < b
          /\ cehrbert_record.dates[a] = cehrbert_record.dates[b]
          /\ CodeRank(cehrbert_record.concept_ids[b])
                 < CodeRank(cehrbert_record.concept_ids[a])

(***************************************************************************)
(* Properties of random_slice_gpt_sequence and of its caller               *)
(***************************************************************************)
\* C23: whatever the concept sequence and max_seq_len, a call that has ended has
\* returned a window
SliceAlwaysReturns == pc # "slice" => ~IsNone(slice_result)

\* the offsets of the backward scan that hold a visit end
WindowEnds ==
    {i \in SliceStart..(SliceStart + max_seq_len - 5) :
        i < Len(concept_ids) /\ concept_ids[i + 1] = VE}

\* the forward scan ended without a candidate
NoCandidate ==
    \E scan \in {StartingPoints(concept_ids, max_seq_len)} :
        ~scan.raised /\ Len(scan.points) = 0

\* the window starts at a candidate and the backward scan met no visit end
NoVisitEnd == SliceStart \in CandidateOffsets /\ WindowEnds = {}

AfterSlice == pc \in {"skipped", "yielded", "AssertionError"} /\ ~IsNone(slice_result)

\* C24: a call whose forward scan records no candidate, or whose backward scan
\* finds no visit end, returns start = end, and the iterator yields no row for a
\* window with start = end
DegenerateWindowSkipped ==
    /\ (Sliced /\ (NoCandidate \/ NoVisitEnd)) => SliceStart = SliceEnd
    /\ (AfterSlice /\ SliceStart = SliceEnd) => gpt_row = None

\* an over-long row whose chosen visit is cut off before its end, skipped
DegenerateWindowWitness ==
    /\ pc = "skipped"
    /\ ~IsNone(slice_result)
    /\ NoVisitEnd
    /\ max_seq_len > 4
    /\ gpt_row = None

\* C25: in random-cursor mode the tokens cut out of an over-long row for the window
\* returned, chosen or fallback, are at most max_seq_len, and the assertion on the
\* length of the token ids never fails
WindowFitsContext ==
    /\ pc # "AssertionError"
    /\ (Sliced /\ gpt_mode = "random_cursor") =>
          Len(WindowSlice(concept_ids, SliceStart, SliceEnd)) <= max_seq_len
    /\ (pc = "yielded" /\ Val(gpt_row).record_status = "TRUNCATION") =>
          Len(Val(gpt_row).token_ids) <= max_seq_len

\* a row yielded for the fallback of a failed call, max_seq_len tokens long
WindowFitsContextWitness ==
    /\ pc = "yielded"
    /\ Val(gpt_row).record_status = "TRUNCATION"
    /\ SliceDemographics = <<>>
    /\ Len(Val(gpt_row).token_ids) = max_seq_len
    /\ Len(concept_ids) > max_seq_len + 2

(***************************************************************************)
(* Properties of the visits convert_one_patient returns                    *)
(***************************************************************************)
IsDemographicCode(code) ==
    \/ code \in birth_codes
    \/ IsRaceCode(code)
    \/ IsGenderCode(code)
    \/ IsEthnicityCode(code)

BeyondCutoff(e) ==
    ~IsNone(prediction_time) /\ ~IsNone(e.time) /\ Val(e.time) > Val(prediction_time)

\* the input events that belong into a visit
VisitEvents ==
    {k \in 1..Len(patient_events) :
        /\ ~IsNone(patient_events[k].time)
        /\ ~IsDemographicCode(patient_events[k].code)
        /\ ~BeyondCutoff(patient_events[k])}

\* the places <<visit, position>> of the returned visits that hold the input event k
PlacesOf(k) ==
    {place \in UNION {{<<v, j>> : j \in 1..Len(ReturnedVisits[v].events)} :
                         v \in 1..Len(ReturnedVisits)} :
        /\ ReturnedVisits[place[1]].events[place[2]].code = patient_events[k].code
        /\ Some(ReturnedVisits[place[1]].events[place[2]].time) = patient_events[k].time}

\* C26: every input event with a time that is no demographic event and not beyond
\* the cutoff is in exactly one returned Visit exactly once, and the Visits hold no
\* other event
EventsConserved ==
    Converted =>
        /\ \A k \in VisitEvents : Cardinality(PlacesOf(k)) = 1
        /\ \A v \in 1..Len(ReturnedVisits) :
              \A j \in 1..Len(ReturnedVisits[v].events) :
                  \E k \in VisitEvents : <<v, j>> \in PlacesOf(k)

\* a patient with an event beyond the cutoff and a visit merged from blocks of
\* three days
EventsConservedWitness ==
    /\ Converted
    /\ \E k \in 1..Len(patient_events) : BeyondCutoff(patient_events[k])
    /\ Cardinality(VisitEvents) = 3
    /\ Len(patient_blocks) = 3
    /\ Len(ReturnedVisits) = 1

\* the blocks of the pair p, and whether a discharge closed it
SpanOf(p) == admit_discharge_pairs[p][1]..admit_discharge_pairs[p][2]
ClosedByDischarge(p) == patient_blocks[admit_discharge_pairs[p][2]].has_discharge

\* C27: once the visit ids are reassigned, no block of an admission closed by a
\* discharge has the visit id of a block of a later admission closed by a later
\* discharge
DistinctStaysKeepDistinctIds ==
    Converted =>
        \A p, q \in 1..Len(admit_discharge_pairs) :
            (p < q /\ ClosedByDischarge(p) /\ ClosedByDischarge(q)) =>
                \A a \in SpanOf(p), b \in SpanOf(q) :
                    patient_blocks[a].visit_id # patient_blocks[b].visit_id

(***************************************************************************)
(* Further properties of MedToCehrBertDatasetMapping.transform             *)
(***************************************************************************)
\* C28: in every returned record num_of_visits is the number of visit-start markers
\* in concept_ids, also for a patient with visits that have no events
VisitCountMatchesStarts ==
    Returned => Val(cehrbert_record.num_of_visits) = Cardinality(StartPositions)

\* the days from the time cursor to the event the measurement loop handles next
IntraVisitGap == MeasTimeDiff(Head(frame.measurements), Val(date_cursor))

\* C30: an inpatient gap token emitted before an event encodes the days from the
\* time cursor within the visit to that event, the gap that triggered it, not the
\* gap between the visits, and is emitted in the first visit as in any other
InpatientGapTokenEncodesIntraVisitGap ==
    [][ (InpatientTokenStep /\ IntraVisitGap > 0) =>
          /\ pc' = "measure"
          /\ cehrbert_record'.concept_ids[Len(cehrbert_record.concept_ids) + 1] =
                 "i-" \o AttToken(data_args.inpatient_att_function_type,
                                  Some(IntraVisitGap)) ]_vars
====
